---- MODULE Spec2Model ----
(***************************************************************************)
(* Model of the YouTube channel indexer (YouTubeChannelIndexer) and of the *)
(* hybrid search service (SemanticSearchService).                          *)
(*                                                                         *)
(* Tables are sequences of rows; a row's database id is its position.     *)
(* Every `await` of indexChannel is one action, so that runs overlap the  *)
(* way asynchronous tasks overlap on the event loop.                       *)
(***************************************************************************)
EXTENDS Integers, Sequences, FiniteSets, Bags, TLC

\* ------------------------------------------------------------------ bounds
NumVideos == 4      \* videos the first channel lists
MaxChunks == 2      \* chunks of the longest transcript
NumSearchChunks == 2   \* chunk rows of the search store
NumDirections == 2     \* distinct embedding vectors
MaxLimit == 2          \* largest `limit` option
MaxFaults == 1      \* exceptions injected into external / database calls
MaxExtraChunks == 1 \* chunks of the traced video beyond one full chunk batch
MaxPieces == 4      \* pieces between sentence terminators in a transcript
MaxHits == 3        \* hits the token-classification pipeline answers

\* ------------------------------------------------------- program constants
BATCH_SIZE == 3
CHUNK_BATCH_SIZE == 10
CHUNK_SIZE == 400
CHUNK_OVERLAP == 50

\* Two calls of indexChannel, each on an indexer instance of its own: what
\* "twice", "a later run" and "overlapping runs" need.
Runs == {1, 2}
NULL == 0

\* Channel URLs a caller passes: two channels and one URL no pattern matches.
Urls == {"youtube.com/@c1", "youtube.com/@c2", "example.com/x"}

ErrInvalidUrl == "Invalid YouTube channel URL"
ErrNoDbId == "Channel database ID not set. Call indexChannel first."
ErrUnique == "duplicate key value violates unique constraint"
ErrDb == "database error"
ErrVideo == "video processing error"
NoError == ""

\* extractChannelIdFromUrl: the handle a pattern captures, "none" standing for
\* the throw of "Invalid YouTube channel URL".
extractChannelIdFromUrl(u) ==
    CASE u = "youtube.com/@c1" -> "c1"
      [] u = "youtube.com/@c2" -> "c2"
      [] u = "youtube.com/@c3" -> "c3"
      [] OTHER -> "none"

\* The video whose processVideoWithYtdlp call is followed step by step: the
\* first video of the third channel, whose other videos have no subtitles.
TracedVideo == 3 * (NumVideos + 1)

\* What yt-dlp lists for a channel: external video ids, in order.
ChannelVideos(u) ==
    CASE u = "youtube.com/@c1" -> [k \in 1..NumVideos |-> k]
      [] u = "youtube.com/@c2" -> <<NumVideos + 1>>
      [] u = "youtube.com/@c3" ->
            [k \in 1..(BATCH_SIZE + 1) |->
                IF k = 1 THEN TracedVideo ELSE 3 * (NumVideos + k) + 2]
      [] OTHER -> <<>>

\* Whether yt-dlp yields a non-empty transcript for video v (every third video
\* has no subtitles).
HasTranscript(v) == v % 3 # 2

\* Number of chunks createTranscriptChunks cuts the transcript of video v into.
NChunks(v) == 1 + (v % MaxChunks)

VARIABLES
    channelRows,    \* YouTubeChannel: Seq of [channelId, isIndexed]
    videoRows,      \* YouTubeVideo: Seq of [videoId, channelId]
    chunkRows,      \* TranscriptChunk: bag of [videoId, chunkIndex]
    statusRows,     \* ChannelIndexStatus: Seq of rows
    channelDbId,    \* this.channelDbId of each indexer instance
    batchChannelDbId, \* local `const channelDbId` of each run's current batch
    pc,             \* position of each indexChannel run
    url,            \* channelUrl argument of each run
    maxVideos,      \* maxVideos argument of each run (0: not given)
    channel,        \* local `channel.id` of each run
    existing,       \* createChannelRecord: the select found a row
    videos,         \* local `videos` of each run
    i,              \* loop variable of the batch loop
    processedCount, \* local processedCount
    inflight,       \* positions of the batch whose promise is pending
    error,          \* the exception caught by indexChannel's catch
    result,         \* how the run ended: [kind: none | returned | raised, msg]
    faults,         \* exceptions injected so far
    myRow,          \* history: id of the status row the run inserted
    statusLog,      \* history: [status, progress] the run wrote to its status row
    failedVideos,   \* history: videos whose processVideoWithYtdlp threw
    attempted,      \* history: videos handed to processVideoWithYtdlp
    marked,         \* history: the run executed markChannelAsIndexed
    chunkTable,     \* search store: TranscriptChunk rows with content, embedding
    keywordRows,    \* search store: VideoKeyword rows
    queryLog,       \* SearchQuery rows
    spc,            \* position of the search() call
    query,          \* its query argument
    options,        \* its options: [channelId, limit, similarityThreshold]
    queryEmbedding, \* local queryEmbedding
    searchDbId,     \* local channelDbId of search()
    chunkSimilarities, \* local chunkSimilarities
    searchResult,   \* the list search() returned
    searchEnd,      \* "none", "returned" or "raised"
    vecOutcome,     \* history: "none", "threw" or "returned" (findSimilarChunks)
    kwOutcome,      \* history: "none", "threw" or "returned" (keywordSearch)
    kwReturn,       \* history: the list keywordSearch returned
    vpc,            \* position of the traced processVideoWithYtdlp call
    tempDir,        \* its temp directory: [exists, files]
    files,          \* local `files`: the first readdir listing
    child,          \* yt-dlp children still running: a set of commands
    transcript,     \* local `transcript`, as its number of chunks (0: "")
    videoRecord,    \* local `videoRecord.id`
    chunks,         \* local `chunks`: ids of the chunk rows created
    ci,             \* loop variable of the chunk batch loop
    chunkState,     \* per chunk position: where its processChunk call is
    vlog,           \* history: what the traced call did
    cpc,            \* position of the createTranscriptChunks call
    transcriptText, \* its transcript argument
    sentences,      \* local `sentences`
    si,             \* position of the for loop in `sentences`
    currentChunk,   \* local currentChunk
    currentTokens,  \* local currentTokens
    startTime,      \* local startTime
    chunkList,      \* local `chunks`: the rows inserted, in order
    overlapTexts,   \* history: local overlapText of each new chunk
    xpc,            \* position of the extractKeywordsFromTranscript call
    nerResults,     \* what the token-classification pipeline answered
    keywordsOut     \* the `keywords` list it returned

vars == <<channelRows, videoRows, chunkRows, statusRows, channelDbId,
          batchChannelDbId, pc, url,
          maxVideos, channel, existing, videos, i, processedCount, inflight,
          error, result, faults, myRow, statusLog, failedVideos, attempted, marked,
          chunkTable, keywordRows, queryLog, spc, query, options,
          queryEmbedding, searchDbId, chunkSimilarities, searchResult,
          searchEnd, vecOutcome, kwOutcome, kwReturn,
          vpc, tempDir, files, child, transcript, videoRecord, chunks, ci,
          chunkState, vlog,
          cpc, transcriptText, sentences, si, currentChunk, currentTokens,
          startTime, chunkList, overlapTexts, xpc, nerResults, keywordsOut>>

dbVars == <<channelRows, videoRows, chunkRows, statusRows>>

runVars == <<channelDbId, batchChannelDbId, pc, url, maxVideos, channel, existing, videos, i,
             processedCount, inflight, error, result, faults, myRow,
             statusLog, failedVideos, attempted, marked>>

searchVars == <<chunkTable, keywordRows, queryLog, spc, query, options,
                queryEmbedding, searchDbId, chunkSimilarities, searchResult,
                searchEnd, vecOutcome, kwOutcome, kwReturn>>

videoVars == <<vpc, tempDir, files, child, transcript, videoRecord, chunks, ci,
               chunkState, vlog>>

chunkerVars == <<cpc, transcriptText, sentences, si, currentChunk, currentTokens,
                 startTime, chunkList, overlapTexts>>

extractVars == <<xpc, nerResults, keywordsOut>>

\* The indexer instance run r is called on.  DOMAIN channelDbId is the set of
\* instances: one per run where each caller constructs its own indexer (new
\* YouTubeChannelIndexer()), a single one where the runs share an indexer.
inst(r) == IF r \in DOMAIN channelDbId THEN r ELSE 1

Min(a, b) == IF a < b THEN a ELSE b

BatchProgressFloor(p, t) == (20 * t + 30 * p) \div t

BatchProgressRemaining(p, t) == (2 * (20 * t + 30 * (t - p)) + t) \div (2 * t)

\* Math.round(20 + (processedCount / total) * 30), in integers:
\* floor(x + 1/2) for x = 20 + 30*p/t.
BatchProgress(p, t) == (2 * (20 * t + 30 * p) + t) \div (2 * t)

\* No search() call is in progress.
SearchLocalsIdle ==
    /\ queryLog = <<>>
    /\ spc = "idle"
    /\ query = ""
    /\ options = [channelId |-> "", limit |-> 1, similarityThreshold |-> 50]
    /\ queryEmbedding = NULL
    /\ searchDbId = NULL
    /\ chunkSimilarities = <<>>
    /\ searchResult = <<>>
    /\ searchEnd = "none"
    /\ vecOutcome = "none"
    /\ kwOutcome = "none"
    /\ kwReturn = <<>>

SearchIdle ==
    /\ chunkTable = <<>>
    /\ keywordRows = <<>>
    /\ SearchLocalsIdle

\* No processVideoWithYtdlp call is traced step by step.
VideoIdle ==
    /\ vpc = "idle"
    /\ tempDir = [exists |-> FALSE, files |-> {}]
    /\ files = {}
    /\ child = {}
    /\ transcript = 0
    /\ videoRecord = NULL
    /\ chunks = <<>>
    /\ ci = 0
    /\ chunkState = <<>>
    /\ vlog = {}

\* No indexChannel call has started.
ChunkerIdle ==
    /\ cpc = "idle"
    /\ transcriptText = <<>>
    /\ sentences = <<>>
    /\ si = 0
    /\ currentChunk = <<>>
    /\ currentTokens = 0
    /\ startTime = 0
    /\ chunkList = <<>>
    /\ overlapTexts = <<>>

ExtractIdle ==
    /\ xpc = "idle"
    /\ nerResults = <<>>
    /\ keywordsOut = <<>>

RunsIdle ==
    /\ batchChannelDbId = [r \in Runs |-> NULL]
    /\ pc = [r \in Runs |-> "start"]
    /\ channel = [r \in Runs |-> NULL]
    /\ existing = [r \in Runs |-> FALSE]
    /\ videos = [r \in Runs |-> <<>>]
    /\ i = [r \in Runs |-> 0]
    /\ processedCount = [r \in Runs |-> 0]
    /\ inflight = [r \in Runs |-> {}]
    /\ error = [r \in Runs |-> NoError]
    /\ result = [r \in Runs |-> [kind |-> "none", msg |-> NoError]]
    /\ faults = 0
    /\ myRow = [r \in Runs |-> NULL]
    /\ statusLog = [r \in Runs |-> <<>>]
    /\ failedVideos = [r \in Runs |-> {}]
    /\ attempted = [r \in Runs |-> {}]
    /\ marked = [r \in Runs |-> FALSE]

Init ==
    /\ channelRows = <<>>
    /\ videoRows = <<>>
    /\ chunkRows = EmptyBag
    /\ statusRows = <<>>
    /\ url \in [Runs -> Urls]
    /\ maxVideos \in [Runs -> {0, 1}]
    /\ channelDbId = [r \in Runs |-> NULL]
    /\ RunsIdle
    /\ SearchIdle
    /\ VideoIdle
    /\ ChunkerIdle
    /\ ExtractIdle

\* ------------------------------------------------- strings (search service)
LowerChar(c) ==
    CASE c = "A" -> "a" [] c = "B" -> "b" [] c = "C" -> "c" [] c = "D" -> "d"
      [] c = "E" -> "e" [] c = "F" -> "f" [] c = "G" -> "g" [] c = "H" -> "h"
      [] c = "I" -> "i" [] c = "J" -> "j" [] c = "K" -> "k" [] c = "L" -> "l"
      [] c = "M" -> "m" [] c = "N" -> "n" [] c = "O" -> "o" [] c = "P" -> "p"
      [] c = "Q" -> "q" [] c = "R" -> "r" [] c = "S" -> "s" [] c = "T" -> "t"
      [] c = "U" -> "u" [] c = "V" -> "v" [] c = "W" -> "w" [] c = "X" -> "x"
      [] c = "Y" -> "y" [] c = "Z" -> "z" [] OTHER -> c

RECURSIVE toLowerCase(_)
toLowerCase(s) ==
    IF s = "" THEN "" ELSE LowerChar(Head(s)) \o toLowerCase(Tail(s))

IsSpace(c) == c = " "

\* String.prototype.split(/\s+/): `acc` the pieces closed so far, `cur` the
\* piece being read, `inSep` whether the last character read was white space.
RECURSIVE SplitFrom(_, _, _, _)
SplitFrom(s, acc, cur, inSep) ==
    IF s = "" THEN Append(acc, cur)
    ELSE IF IsSpace(Head(s))
         THEN IF inSep THEN SplitFrom(Tail(s), acc, cur, TRUE)
              ELSE SplitFrom(Tail(s), Append(acc, cur), "", TRUE)
         ELSE SplitFrom(Tail(s), acc, cur \o Head(s), FALSE)

SplitWhitespace(s) == SplitFrom(s, <<>>, "", FALSE)

\* String.prototype.includes
Includes(hay, needle) ==
    \E k \in 0..(Len(hay) - Len(needle)) :
        SubSeq(hay, k + 1, k + Len(needle)) = needle

StopWords ==
    {"the", "a", "an", "and", "or", "but", "in", "on", "at", "to", "for", "of",
     "with", "by", "is", "are", "was", "were", "be", "been", "being", "have",
     "has", "had", "do", "does", "did", "will", "would", "could", "should",
     "may", "might", "must", "can", "this", "that", "these", "those", "i",
     "you", "he", "she", "it", "we", "they", "me", "him", "her", "us", "them",
     "my", "your", "his", "its", "our", "their"}

isStopWordOrAbout(w) == w \in StopWords \cup {"about"}

isStopWord(w) == w \in StopWords

extractKeywordsFromQuery(q) ==
    SelectSeq(SelectSeq(SplitWhitespace(toLowerCase(q)), LAMBDA w : Len(w) > 2),
              LAMBDA w : ~isStopWord(w))

\* LOWER(keyword) LIKE LOWER('%' || kw || '%')
Like(keyword, kw) == Includes(toLowerCase(keyword), toLowerCase(kw))

\* ------------------------------------------------- scores, as fractions
Frac(n, d) == [num |-> n, den |-> d]
FracLess(a, b) == a.num * b.den < b.num * a.den

\* Array.prototype.sort((a, b) => b.relevanceScore - a.relevanceScore): a
\* stable sort, descending by score.
RECURSIVE InsertByScore(_, _)
InsertByScore(sorted, x) ==
    IF sorted = <<>> THEN <<x>>
    ELSE IF FracLess(Head(sorted).relevanceScore, x.relevanceScore)
         THEN <<x>> \o sorted
         ELSE <<Head(sorted)>> \o InsertByScore(Tail(sorted), x)

RECURSIVE SortByScore(_)
SortByScore(xs) ==
    IF xs = <<>> THEN <<>>
    ELSE InsertByScore(SortByScore(SubSeq(xs, 1, Len(xs) - 1)), xs[Len(xs)])

SliceAll(xs, n) == xs

\* Array.prototype.slice(0, n) and SQL LIMIT n
Slice(xs, n) == SubSeq(xs, 1, Min(n, Len(xs)))

calculateKeywordRelevanceScore(matchedKeywords, queryKeywords) ==
    IF matchedKeywords = <<>> THEN Frac(0, 1)
    ELSE Frac(Len(SelectSeq(queryKeywords,
                  LAMBDA qk : \E m \in DOMAIN matchedKeywords :
                                 Includes(toLowerCase(matchedKeywords[m]), toLowerCase(qk)))),
              Len(queryKeywords))

\* similarity in hundredths; the score as a fraction over 100 * |queryWords|.
calculateRelevanceScore(content, q, matchedKeywords, similarity) ==
    LET queryWords == SplitWhitespace(toLowerCase(q))
        contentWords == SplitWhitespace(toLowerCase(content))
        n == Len(queryWords)
        matching == SelectSeq(queryWords,
                        LAMBDA w : \E c \in DOMAIN contentWords : Includes(contentWords[c], w))
        phrase == IF Includes(toLowerCase(content), toLowerCase(q)) THEN 10 ELSE 0
        score == similarity * n + 5 * Len(matchedKeywords) * n + phrase * n + 5 * Len(matching)
    IN Frac(Min(score, 100 * n), 100 * n)

\* ---------------------------------------------------------------- helpers
CanFault == faults < MaxFaults

\* An exception inside indexChannel's try block: control moves to its catch.
Throw(r, msg) ==
    /\ pc' = [pc EXCEPT ![r] = "catch"]
    /\ error' = [error EXCEPT ![r] = msg]

\* The unique constraint on YouTubeChannel.channelId rejects the insert.
ChannelInsertConflictNoUnique(rows, ext) == FALSE

ChannelInsertConflict(rows, ext) ==
    \E k \in DOMAIN rows : rows[k].channelId = ext

\* select ... where channelId = ext limit 1
SelectChannel(rows, ext) ==
    IF \E k \in DOMAIN rows : rows[k].channelId = ext
    THEN CHOOSE k \in DOMAIN rows :
            /\ rows[k].channelId = ext
            /\ \A j \in DOMAIN rows : rows[j].channelId = ext => k <= j
    ELSE NULL

\* insert(youtubeVideo) ... onConflictDoUpdate(target: videoId): the rows after
\* the upsert; the update's set list does not hold channelId.
UpsertVideo(rows, vid, chDb) ==
    IF \E k \in DOMAIN rows : rows[k].videoId = vid
    THEN rows
    ELSE Append(rows, [videoId |-> vid, channelId |-> chDb])

VideoDbId(rows, vid) == CHOOSE k \in DOMAIN rows : rows[k].videoId = vid

\* The rows createTranscriptChunks inserts before it returns or throws:
\* chunkIndex 0 .. n-1 for the video row `vdb`.
NewChunks(vdb, n) ==
    SetToBag({[videoId |-> vdb, chunkIndex |-> c] : c \in 0..(n - 1)})

\* buildUpdateData: errorMessage is set only when the update carries one.
buildUpdateData(row, upd) ==
    [row EXCEPT !.status = upd.status,
                !.progress = upd.progress,
                !.totalVideos = upd.totalVideos,
                !.processedVideos = upd.processedVideos,
                !.errorMessage = IF upd.errorMessage # NoError
                                 THEN upd.errorMessage ELSE @]

\* update(channelIndexStatus).set(..).where(channelId = this.channelDbId)
UpdateIndexStatusRows(rows, dbid, upd) ==
    [k \in DOMAIN rows |->
        IF rows[k].channelId = dbid THEN buildUpdateData(rows[k], upd)
        ELSE rows[k]]

Update(st, pr, tot, done, msg) ==
    [status |-> st, progress |-> pr, totalVideos |-> tot,
     processedVideos |-> done, errorMessage |-> msg]

\* What a run writes reaches its own row when that row exists.
Logged(r, st, pr) ==
    statusLog' = [statusLog EXCEPT ![r] =
                    IF myRow[r] # NULL
                    THEN Append(@, [status |-> st, progress |-> pr]) ELSE @]

\* The try/catch around processVideoWithYtdlp in the batch callback catches
\* every exception: no outcome makes the batch promise reject.
VideoErrorEscapesUncaught(o) == o.kind = "throw"

VideoErrorEscapes(o) == FALSE

\* What one call of processVideoWithYtdlp can do for video v.
VideoOutcomes(v) ==
    IF ~HasTranscript(v)
    THEN {[kind |-> "skip", row |-> FALSE, chunks |-> 0],
          [kind |-> "throw", row |-> FALSE, chunks |-> 0]}
    ELSE {[kind |-> "ok", row |-> TRUE, chunks |-> NChunks(v)],
          [kind |-> "throw", row |-> FALSE, chunks |-> 0]}
         \cup {[kind |-> "throw", row |-> TRUE, chunks |-> j] : j \in 0..NChunks(v)}

BatchUnsliced(r) == (i[r] + 1)..Len(videos[r])

\* videos.slice(i, i + BATCH_SIZE), as positions.
Batch(r) == (i[r] + 1)..Min(i[r] + BATCH_SIZE, Len(videos[r]))

\* ---------------------------------------------------------------- actions
\* createChannelRecord, up to its select.
CreateChannelSelect(r) ==
    /\ pc[r] = "start"
    /\ LET ext == extractChannelIdFromUrl(url[r]) IN
       \/ /\ ext = "none"
          /\ Throw(r, ErrInvalidUrl)
          /\ UNCHANGED <<existing, faults>>
       \/ /\ ext # "none"
          /\ existing' = [existing EXCEPT ![r] = SelectChannel(channelRows, ext) # NULL]
          /\ pc' = [pc EXCEPT ![r] = "channelWrite"]
          /\ UNCHANGED <<error, faults>>
       \/ /\ ext # "none"
          /\ CanFault
          /\ faults' = faults + 1
          /\ Throw(r, ErrDb)
          /\ UNCHANGED existing
    /\ UNCHANGED <<searchVars, videoVars, chunkerVars, extractVars>>
    /\ UNCHANGED <<failedVideos, batchChannelDbId>>
    /\ UNCHANGED <<dbVars, channelDbId, url, maxVideos, channel, videos, i,
                   processedCount, inflight, result, myRow, statusLog,
                   attempted, marked>>

\* createChannelRecord's update or insert, then this.channelDbId = channel.id.
CreateChannelWrite(r) ==
    /\ pc[r] = "channelWrite"
    /\ LET ext == extractChannelIdFromUrl(url[r]) IN
       \/ /\ existing[r]
          /\ channel' = [channel EXCEPT ![r] = SelectChannel(channelRows, ext)]
          /\ channelDbId' = [channelDbId EXCEPT ![inst(r)] = SelectChannel(channelRows, ext)]
          /\ pc' = [pc EXCEPT ![r] = "createStatus"]
          /\ UNCHANGED <<channelRows, error>>
       \/ /\ ~existing[r]
          /\ ~ChannelInsertConflict(channelRows, ext)
          /\ channelRows' = Append(channelRows, [channelId |-> ext, isIndexed |-> FALSE])
          /\ channel' = [channel EXCEPT ![r] = Len(channelRows) + 1]
          /\ channelDbId' = [channelDbId EXCEPT ![inst(r)] = Len(channelRows) + 1]
          /\ pc' = [pc EXCEPT ![r] = "createStatus"]
          /\ UNCHANGED error
       \/ /\ ~existing[r]
          /\ ChannelInsertConflict(channelRows, ext)
          /\ Throw(r, ErrUnique)
          /\ UNCHANGED <<channelRows, channel, channelDbId>>
    /\ UNCHANGED <<searchVars, videoVars, chunkerVars, extractVars>>
    /\ UNCHANGED <<failedVideos, batchChannelDbId>>
    /\ UNCHANGED <<videoRows, chunkRows, statusRows, url, maxVideos, existing,
                   videos, i, processedCount, inflight, result, faults, myRow,
                   statusLog, attempted, marked>>

\* createIndexStatusRecord: a plain insert of a row at pending / 0.
CreateIndexStatusRecord(r) ==
    /\ pc[r] = "createStatus"
    /\ \/ /\ statusRows' = Append(statusRows,
                [channelId |-> channel[r], status |-> "pending", progress |-> 0,
                 totalVideos |-> 0, processedVideos |-> 0, errorMessage |-> NoError])
          /\ myRow' = [myRow EXCEPT ![r] = Len(statusRows) + 1]
          /\ statusLog' = [statusLog EXCEPT ![r] =
                            Append(@, [status |-> "pending", progress |-> 0])]
          /\ pc' = [pc EXCEPT ![r] = "fetch"]
          /\ UNCHANGED <<error, faults>>
       \/ /\ CanFault
          /\ faults' = faults + 1
          /\ Throw(r, ErrDb)
          /\ UNCHANGED <<statusRows, myRow, statusLog>>
    /\ UNCHANGED <<searchVars, videoVars, chunkerVars, extractVars>>
    /\ UNCHANGED <<failedVideos, batchChannelDbId>>
    /\ UNCHANGED <<channelRows, videoRows, chunkRows, channelDbId, url,
                   maxVideos, channel, existing, videos, i, processedCount,
                   inflight, result, attempted, marked>>

\* fetchChannelVideosWithYtdlp (it returns [] when yt-dlp fails) and the
\* maxVideos slice.
FetchVideos(r) ==
    /\ pc[r] = "fetch"
    /\ \E all \in {ChannelVideos(url[r]), <<>>} :
          videos' = [videos EXCEPT ![r] =
                        IF maxVideos[r] # 0
                        THEN SubSeq(all, 1, Min(maxVideos[r], Len(all)))
                        ELSE all]
    /\ pc' = [pc EXCEPT ![r] = "markIndexing"]
    /\ UNCHANGED <<searchVars, videoVars, chunkerVars, extractVars>>
    /\ UNCHANGED <<failedVideos, batchChannelDbId>>
    /\ UNCHANGED <<dbVars, channelDbId, url, maxVideos, channel, existing, i,
                   processedCount, inflight, error, result, faults, myRow,
                   statusLog, attempted, marked>>

\* updateIndexStatus({status: "indexing_videos", progress: 10, ...})
MarkIndexing(r) ==
    /\ pc[r] = "markIndexing"
    /\ \/ /\ statusRows' = UpdateIndexStatusRows(statusRows, channelDbId[inst(r)],
                Update("indexing_videos", 10, Len(videos[r]), 0, NoError))
          /\ Logged(r, "indexing_videos", 10)
          /\ pc' = [pc EXCEPT ![r] = "batch"]
          /\ UNCHANGED <<error, faults>>
       \/ /\ CanFault
          /\ faults' = faults + 1
          /\ Throw(r, ErrDb)
          /\ UNCHANGED <<statusRows, statusLog>>
    /\ UNCHANGED <<searchVars, videoVars, chunkerVars, extractVars>>
    /\ UNCHANGED <<failedVideos, batchChannelDbId>>
    /\ UNCHANGED <<channelRows, videoRows, chunkRows, channelDbId, url,
                   maxVideos, channel, existing, videos, i, processedCount,
                   inflight, result, myRow, attempted, marked>>

\* The loop condition of `for (let i = 0; i < videos.length; i += BATCH_SIZE)`.
HasNextBatchOrEnd(idx, n) == idx <= n

HasNextBatch(idx, n) == idx < n

\* One iteration of the batch loop begins: batch.map starts every video.
BatchStart(r) ==
    /\ pc[r] = "batch"
    /\ HasNextBatch(i[r], Len(videos[r]))
    /\ batchChannelDbId' = [batchChannelDbId EXCEPT ![r] = channelDbId[inst(r)]]
    /\ inflight' = [inflight EXCEPT ![r] = Batch(r)]
    /\ attempted' = [attempted EXCEPT ![r] = @ \cup {videos[r][k] : k \in Batch(r)}]
    /\ pc' = [pc EXCEPT ![r] = "awaitBatch"]
    /\ UNCHANGED <<searchVars, videoVars, chunkerVars, extractVars>>
    /\ UNCHANGED failedVideos
    /\ UNCHANGED <<dbVars, channelDbId, url, maxVideos, channel, existing,
                   videos, i, processedCount, error, result, faults, myRow,
                   statusLog, marked>>

\* processVideoWithYtdlp for the video at position k settles (the traced
\* video settles through its own steps).
FinishVideo(r, k) ==
    /\ pc[r] = "awaitBatch"
    /\ k \in inflight[r]
    /\ videos[r][k] # TracedVideo
    /\ \E o \in VideoOutcomes(videos[r][k]) :
          /\ o.kind = "throw" => CanFault
          /\ faults' = IF o.kind = "throw" THEN faults + 1 ELSE faults
          /\ failedVideos' = [failedVideos EXCEPT ![r] =
                                IF o.kind = "throw" THEN @ \cup {videos[r][k]} ELSE @]
          /\ videoRows' = IF o.row
                          THEN UpsertVideo(videoRows, videos[r][k], batchChannelDbId[r])
                          ELSE videoRows
          /\ chunkRows' = IF o.row
                          THEN chunkRows (+) NewChunks(VideoDbId(videoRows', videos[r][k]), o.chunks)
                          ELSE chunkRows
          /\ IF VideoErrorEscapes(o)
             THEN /\ Throw(r, ErrVideo)
                  /\ inflight' = [inflight EXCEPT ![r] = {}]
             ELSE /\ inflight' = [inflight EXCEPT ![r] = @ \ {k}]
                  /\ UNCHANGED <<pc, error>>
    /\ UNCHANGED <<searchVars, videoVars, chunkerVars, extractVars>>
    /\ UNCHANGED <<channelRows, statusRows, channelDbId, batchChannelDbId, url,
                   maxVideos, channel, existing, videos, i, processedCount,
                   result, myRow, statusLog, attempted, marked>>

\* Promise.all resolved: processedCount += batch.length and the progress update.
BatchEnd(r) ==
    /\ pc[r] = "awaitBatch"
    /\ inflight[r] = {}
    /\ LET count == processedCount[r] + Cardinality(Batch(r))
           progress == BatchProgress(count, Len(videos[r])) IN
       \/ /\ statusRows' = UpdateIndexStatusRows(statusRows, channelDbId[inst(r)],
                Update("indexing_videos", progress, Len(videos[r]), count, NoError))
          /\ Logged(r, "indexing_videos", progress)
          /\ processedCount' = [processedCount EXCEPT ![r] = count]
          /\ i' = [i EXCEPT ![r] = @ + BATCH_SIZE]
          /\ pc' = [pc EXCEPT ![r] = "batch"]
          /\ UNCHANGED <<error, faults>>
       \/ /\ CanFault
          /\ faults' = faults + 1
          /\ processedCount' = [processedCount EXCEPT ![r] = count]
          /\ Throw(r, ErrDb)
          /\ UNCHANGED <<statusRows, statusLog, i>>
    /\ UNCHANGED <<searchVars, videoVars, chunkerVars, extractVars>>
    /\ UNCHANGED <<failedVideos, batchChannelDbId>>
    /\ UNCHANGED <<channelRows, videoRows, chunkRows, channelDbId, url,
                   maxVideos, channel, existing, videos, inflight, result,
                   myRow, attempted, marked>>

\* markChannelAsIndexed(channel.id), after the last batch.
MarkChannelAsIndexed(r) ==
    /\ pc[r] = "batch"
    /\ ~HasNextBatch(i[r], Len(videos[r]))
    /\ \/ /\ channelRows' = [k \in DOMAIN channelRows |->
                IF k = channel[r] THEN [channelRows[k] EXCEPT !.isIndexed = TRUE]
                ELSE channelRows[k]]
          /\ marked' = [marked EXCEPT ![r] = TRUE]
          /\ pc' = [pc EXCEPT ![r] = "complete"]
          /\ UNCHANGED <<error, faults>>
       \/ /\ CanFault
          /\ faults' = faults + 1
          /\ Throw(r, ErrDb)
          /\ UNCHANGED <<channelRows, marked>>
    /\ UNCHANGED <<searchVars, videoVars, chunkerVars, extractVars>>
    /\ UNCHANGED <<failedVideos, batchChannelDbId>>
    /\ UNCHANGED <<videoRows, chunkRows, statusRows, channelDbId, url,
                   maxVideos, channel, existing, videos, i, processedCount,
                   inflight, result, myRow, statusLog, attempted>>

\* updateIndexStatus({status: "completed", progress: 100, ...}) and the return.
Complete(r) ==
    /\ pc[r] = "complete"
    /\ \/ /\ statusRows' = UpdateIndexStatusRows(statusRows, channelDbId[inst(r)],
                Update("completed", 100, Len(videos[r]), Len(videos[r]), NoError))
          /\ Logged(r, "completed", 100)
          /\ pc' = [pc EXCEPT ![r] = "done"]
          /\ result' = [result EXCEPT ![r] = [kind |-> "returned", msg |-> NoError]]
          /\ UNCHANGED <<error, faults>>
       \/ /\ CanFault
          /\ faults' = faults + 1
          /\ Throw(r, ErrDb)
          /\ UNCHANGED <<statusRows, statusLog, result>>
    /\ UNCHANGED <<searchVars, videoVars, chunkerVars, extractVars>>
    /\ UNCHANGED <<failedVideos, batchChannelDbId>>
    /\ UNCHANGED <<channelRows, videoRows, chunkRows, channelDbId, url,
                   maxVideos, channel, existing, videos, i, processedCount,
                   inflight, myRow, attempted, marked>>

\* The catch block: updateIndexStatus({status: "failed", progress: 0, ...,
\* errorMessage}) and `throw error`.  updateIndexStatus throws itself when
\* this.channelDbId is not set, and its database call can fail: whatever made
\* the try block fail can make this update fail too, so this failure is not
\* counted in `faults`.
Catch(r) ==
    /\ pc[r] = "catch"
    /\ \/ /\ channelDbId[inst(r)] = NULL
          /\ result' = [result EXCEPT ![r] = [kind |-> "raised", msg |-> ErrNoDbId]]
          /\ UNCHANGED <<statusRows, statusLog, faults>>
       \/ /\ channelDbId[inst(r)] # NULL
          /\ statusRows' = UpdateIndexStatusRows(statusRows, channelDbId[inst(r)],
                Update("failed", 0, 0, 0, error[r]))
          /\ Logged(r, "failed", 0)
          /\ result' = [result EXCEPT ![r] = [kind |-> "raised", msg |-> error[r]]]
          /\ UNCHANGED faults
       \/ /\ channelDbId[inst(r)] # NULL
          /\ result' = [result EXCEPT ![r] = [kind |-> "raised", msg |-> ErrDb]]
          /\ UNCHANGED <<statusRows, statusLog, faults>>
    /\ pc' = [pc EXCEPT ![r] = "done"]
    /\ UNCHANGED <<searchVars, videoVars, chunkerVars, extractVars>>
    /\ UNCHANGED <<failedVideos, batchChannelDbId>>
    /\ UNCHANGED <<channelRows, videoRows, chunkRows, channelDbId, url,
                   maxVideos, channel, existing, videos, i, processedCount,
                   inflight, error, myRow, attempted, marked>>

Next ==
    \E r \in Runs :
        \/ CreateChannelSelect(r)
        \/ CreateChannelWrite(r)
        \/ CreateIndexStatusRecord(r)
        \/ FetchVideos(r)
        \/ MarkIndexing(r)
        \/ BatchStart(r)
        \/ \E k \in 1..(NumVideos + 1) : FinishVideo(r, k)
        \/ BatchEnd(r)
        \/ MarkChannelAsIndexed(r)
        \/ Complete(r)
        \/ Catch(r)

Spec == Init /\ [][Next]_vars

\* Every awaited call returns or raises: a run that can take a step takes one.
FairSpec == Spec /\ WF_vars(Next)

\* Two overlapping runs for different channels on one indexer instance.
SharedInit ==
    /\ channelRows = <<>>
    /\ videoRows = <<>>
    /\ chunkRows = EmptyBag
    /\ statusRows = <<>>
    /\ url = [r \in Runs |-> IF r = 1 THEN "youtube.com/@c1" ELSE "youtube.com/@c2"]
    /\ maxVideos \in [Runs -> {0, 1}]
    /\ channelDbId = [x \in {1} |-> NULL]
    /\ RunsIdle
    /\ SearchIdle
    /\ VideoIdle
    /\ ChunkerIdle
    /\ ExtractIdle

SharedSpec == SharedInit /\ [][Next]_vars

\* ------------------------------------------------------------ search service
Directions == 1..NumDirections

\* 1 - (a <=> b), in hundredths: the vectors lie 60 degrees apart.
Similarity(a, b) ==
    LET d == IF a < b THEN b - a ELSE a - b IN
    CASE d = 0 -> 100 [] d = 1 -> 50 [] d = 2 -> -50 [] OTHER -> -100

\* The orders a query may return the rows S in under ORDER BY key[row] DESC: rows
\* of equal key come in any order.
SortedOrders(S, key) ==
    {f \in [1..Cardinality(S) -> S] :
        /\ \A a, b \in DOMAIN f : a # b => f[a] # f[b]
        /\ \A a \in DOMAIN f : a + 1 \in DOMAIN f => key[f[a]] >= key[f[a + 1]]}

getChannelDbIdByHandle(handle) == SelectChannel(channelRows, handle)

getVideoById(vdb) == IF vdb \in DOMAIN videoRows THEN vdb ELSE NULL

getChannelById(cdb) == IF cdb \in DOMAIN channelRows THEN cdb ELSE NULL

\* embedding IS NOT NULL
HasEmbeddingOrNot(row) == TRUE

HasEmbedding(row) == row.embedding # NULL

\* 1 - (embedding <=> query) > threshold
ReachesThreshold(sim, threshold) == sim >= threshold

ExceedsThreshold(sim, threshold) == sim > threshold

\* The lists findSimilarChunks can return.
findSimilarChunks(qe, dbid, limit, threshold) ==
    LET hit(k) == /\ HasEmbedding(chunkTable[k])
                  /\ chunkTable[k].videoId \in DOMAIN videoRows
                  /\ dbid # NULL => videoRows[chunkTable[k].videoId].channelId = dbid
                  /\ ExceedsThreshold(Similarity(chunkTable[k].embedding, qe), threshold)
        hits == {k \in DOMAIN chunkTable : hit(k)}
        sim(k) == Similarity(chunkTable[k].embedding, qe)
    IN {Slice([a \in DOMAIN f |-> [chunk |-> f[a], similarity |-> sim(f[a])]], limit) :
            f \in SortedOrders(hits, [k \in hits |-> sim(k)])}

\* The where clause of keywordSearch.  The OR-joined LIKE conditions are not
\* parenthesised, so the appended AND binds to the last of them only.
KeywordWhere(j, queryKeywords, dbid) ==
    LET kw == keywordRows[j].keyword
        n == Len(queryKeywords)
        inChannel == videoRows[chunkTable[keywordRows[j].chunkId].videoId].channelId = dbid
    IN IF dbid = NULL
       THEN \E m \in 1..n : Like(kw, queryKeywords[m])
       ELSE \/ \E m \in 1..(n - 1) : Like(kw, queryKeywords[m])
            \/ Like(kw, queryKeywords[n]) /\ inChannel

\* Chunk ids in order of first appearance (the insertion order of chunkMap).
RECURSIVE ChunkOrder(_, _)
ChunkOrder(rows, seen) ==
    IF rows = <<>> THEN <<>>
    ELSE IF keywordRows[Head(rows)].chunkId \in seen
         THEN ChunkOrder(Tail(rows), seen)
         ELSE <<keywordRows[Head(rows)].chunkId>>
              \o ChunkOrder(Tail(rows), seen \cup {keywordRows[Head(rows)].chunkId})

\* keywordSearch from its grouping on: `rows` are the keyword row ids the
\* query returned, in order.
KeywordResults(rows, queryKeywords, limit) ==
    LET order == ChunkOrder(rows, {})
        keywordsOf(c) ==
            LET mine == SelectSeq(rows, LAMBDA j : keywordRows[j].chunkId = c)
            IN [m \in DOMAIN mine |-> keywordRows[mine[m]].keyword]
        kept == SelectSeq(order, LAMBDA c :
                    /\ getVideoById(chunkTable[c].videoId) # NULL
                    /\ getChannelById(videoRows[chunkTable[c].videoId].channelId) # NULL)
        searchResults ==
            [m \in DOMAIN kept |->
                [chunk |-> kept[m],
                 relevanceScore |->
                    calculateKeywordRelevanceScore(keywordsOf(kept[m]), queryKeywords),
                 matchedKeywords |-> keywordsOf(kept[m])]]
    IN Slice(SortByScore(searchResults), limit)

\* The lists keywordSearch(query, options) can return.
keywordSearch(q, opts) ==
    LET dbid == IF opts.channelId # "" THEN getChannelDbIdByHandle(opts.channelId)
                ELSE NULL
        queryKeywords == extractKeywordsFromQuery(q)
        joined(j) == /\ keywordRows[j].chunkId \in DOMAIN chunkTable
                     /\ chunkTable[keywordRows[j].chunkId].videoId \in DOMAIN videoRows
        hits == {j \in DOMAIN keywordRows : joined(j) /\ KeywordWhere(j, queryKeywords, dbid)}
        conf(j) == keywordRows[j].confidence
    IN IF opts.channelId # "" /\ dbid = NULL THEN {<<>>}
       ELSE IF queryKeywords = <<>> THEN {<<>>}
       ELSE {KeywordResults(Slice(f, opts.limit * 2), queryKeywords, opts.limit) :
                f \in SortedOrders(hits, [j \in hits |-> conf(j)])}

findMatchingKeywords(c, q) ==
    LET queryKeywords == extractKeywordsFromQuery(q)
        rows == SelectSeq([j \in DOMAIN keywordRows |-> j], LAMBDA j :
                    /\ keywordRows[j].chunkId = c
                    /\ \E m \in DOMAIN queryKeywords : Like(keywordRows[j].keyword, queryKeywords[m]))
    IN IF queryKeywords = <<>> THEN <<>>
       ELSE [m \in DOMAIN rows |-> keywordRows[rows[m]].keyword]

\* search(), lines 110-158: the results assembled from the vector candidates.
VectorResults(cands, q, limit) ==
    LET kept == SelectSeq(cands, LAMBDA c :
                    /\ getVideoById(chunkTable[c.chunk].videoId) # NULL
                    /\ getChannelById(videoRows[chunkTable[c.chunk].videoId].channelId) # NULL)
        results ==
            [m \in DOMAIN kept |->
                [chunk |-> kept[m].chunk,
                 relevanceScore |->
                    calculateRelevanceScore(chunkTable[kept[m].chunk].content, q,
                        findMatchingKeywords(kept[m].chunk, q), kept[m].similarity),
                 matchedKeywords |-> findMatchingKeywords(kept[m].chunk, q)]]
    IN Slice(SortByScore(results), limit)

\* search(), line 100: no vector result means the keyword fallback.

FallsBackToKeywords(cands) == Len(cands) = 0

\* search(), lines 102-107: what the fallback returns.
KeywordFallbackDropped(threw, list) == <<>>

KeywordFallback(threw, list) == IF threw THEN <<>> ELSE list

\* ---- the store a search() call runs against
ChunkContent(k) ==
    CASE k % 3 = 1 -> "President Barack Obama spoke in Chicago"
      [] k % 3 = 2 -> "Obama visited the zoo"
      [] OTHER -> "The cat sat"

\* Keyword rows extraction can have written for chunk k.
ChunkKeywords(k) ==
    CASE k % 3 = 1 -> <<[chunkId |-> k, keyword |-> "Barack Obama", confidence |-> 95],
                        [chunkId |-> k, keyword |-> "Chicago", confidence |-> 80]>>
      [] k % 3 = 2 -> <<[chunkId |-> k, keyword |-> "Obama", confidence |-> 95]>>
      [] OTHER -> <<[chunkId |-> k, keyword |-> "Cat", confidence |-> 60]>>

RECURSIVE Flatten(_)
Flatten(ss) == IF ss = <<>> THEN <<>> ELSE Head(ss) \o Flatten(Tail(ss))

Queries == {"Tell me about Barack Obama", "the obama", "zoo chicago"}

ChannelHandles == {"", "c1", "zz"}

\* similarityThreshold in hundredths: search() takes any number (the search
\* route admits 0 .. 1, the type of the option does not).
Thresholds == {-100, 50}

SearchInit ==
    /\ channelRows = <<[channelId |-> "c1", isIndexed |-> TRUE],
                       [channelId |-> "c2", isIndexed |-> TRUE]>>
    /\ videoRows = <<[videoId |-> 1, channelId |-> 1],
                     [videoId |-> NumVideos + 1, channelId |-> 2]>>
    /\ \E emb \in [1..NumSearchChunks -> {NULL} \cup Directions] :
          chunkTable = [k \in 1..NumSearchChunks |->
                            [videoId |-> 2 - (k % 2), chunkIndex |-> (k - 1) \div 2,
                             content |-> ChunkContent(k), embedding |-> emb[k]]]
    /\ \E has \in [1..NumSearchChunks -> BOOLEAN] :
          keywordRows = Flatten([k \in 1..NumSearchChunks |->
                                    IF has[k] THEN ChunkKeywords(k) ELSE <<>>])
    /\ chunkRows = SetToBag({[videoId |-> chunkTable[k].videoId,
                              chunkIndex |-> chunkTable[k].chunkIndex] :
                                k \in DOMAIN chunkTable})
    /\ statusRows = <<>>
    /\ url = [r \in Runs |-> "youtube.com/@c1"]
    /\ maxVideos = [r \in Runs |-> 0]
    /\ channelDbId = [r \in Runs |-> NULL]
    /\ RunsIdle
    /\ VideoIdle
    /\ ChunkerIdle
    /\ ExtractIdle
    /\ queryLog = <<>>
    /\ spc = "embed"
    /\ query \in Queries
    /\ options \in [channelId : ChannelHandles, limit : 1..MaxLimit,
                    similarityThreshold : Thresholds]
    /\ queryEmbedding = NULL
    /\ searchDbId = NULL
    /\ chunkSimilarities = <<>>
    /\ searchResult = <<>>
    /\ searchEnd = "none"
    /\ vecOutcome = "none"
    /\ kwOutcome = "none"
    /\ kwReturn = <<>>

\* The vector the embedding provider answers for a text.
EmbeddingOf(text) == 1 + (Len(text) % (NumDirections + 1))

\* generateEmbedding(query): the provider answers, or the call throws, and
\* nothing in search() catches it.
SearchEmbed ==
    /\ spc = "embed"
    /\ \/ /\ queryEmbedding' = EmbeddingOf(query)
          /\ spc' = "resolve"
          /\ UNCHANGED searchEnd
       \/ /\ spc' = "done"
          /\ searchEnd' = "raised"
          /\ UNCHANGED queryEmbedding
    /\ UNCHANGED <<dbVars, runVars, videoVars, chunkerVars, extractVars>>
    /\ UNCHANGED <<chunkTable, keywordRows, queryLog, query, options, searchDbId,
                   chunkSimilarities, searchResult, vecOutcome, kwOutcome, kwReturn>>

\* The channel handle is resolved; an unknown handle returns [].
SearchResolve ==
    /\ spc = "resolve"
    /\ LET dbId == getChannelDbIdByHandle(options.channelId) IN
       \/ /\ options.channelId # ""
          /\ dbId = NULL
          /\ spc' = "done"
          /\ searchEnd' = "returned"
          /\ searchResult' = <<>>
          /\ UNCHANGED searchDbId
       \/ /\ options.channelId # ""
          /\ dbId # NULL
          /\ searchDbId' = dbId
          /\ spc' = "log"
          /\ UNCHANGED <<searchEnd, searchResult>>
       \/ /\ options.channelId = ""
          /\ spc' = "log"
          /\ UNCHANGED <<searchDbId, searchEnd, searchResult>>
    /\ UNCHANGED <<dbVars, runVars, videoVars, chunkerVars, extractVars>>
    /\ UNCHANGED <<chunkTable, keywordRows, queryLog, query, options,
                   queryEmbedding, chunkSimilarities, vecOutcome, kwOutcome, kwReturn>>

\* logSearchQuery: a row when a channel is given; its failure is swallowed.
SearchLog ==
    /\ spc = "log"
    /\ \/ /\ searchDbId # NULL
          /\ queryLog' = Append(queryLog, [channelId |-> searchDbId, query |-> query])
       \/ UNCHANGED queryLog
    /\ spc' = "vector"
    /\ UNCHANGED <<dbVars, runVars, videoVars, chunkerVars, extractVars>>
    /\ UNCHANGED <<chunkTable, keywordRows, query, options, queryEmbedding,
                   searchDbId, chunkSimilarities, searchResult, searchEnd,
                   vecOutcome, kwOutcome, kwReturn>>

\* findSimilarChunks inside its try, and the test of line 100.
SearchVector ==
    /\ spc = "vector"
    /\ \/ /\ chunkSimilarities' = <<>>
          /\ vecOutcome' = "threw"
       \/ /\ chunkSimilarities' \in findSimilarChunks(queryEmbedding, searchDbId,
                    options.limit * 2, options.similarityThreshold)
          /\ vecOutcome' = "returned"
    /\ spc' = IF FallsBackToKeywords(chunkSimilarities') THEN "keyword" ELSE "assemble"
    /\ UNCHANGED <<dbVars, runVars, videoVars, chunkerVars, extractVars>>
    /\ UNCHANGED <<chunkTable, keywordRows, queryLog, query, options,
                   queryEmbedding, searchDbId, searchResult, searchEnd,
                   kwOutcome, kwReturn>>

\* The fallback: keywordSearch inside its try.
SearchKeyword ==
    /\ spc = "keyword"
    /\ \/ /\ kwOutcome' = "threw"
          /\ searchResult' = KeywordFallback(TRUE, <<>>)
          /\ UNCHANGED kwReturn
       \/ \E list \in keywordSearch(query, options) :
            /\ kwOutcome' = "returned"
            /\ kwReturn' = list
            /\ searchResult' = KeywordFallback(FALSE, list)
    /\ spc' = "done"
    /\ searchEnd' = "returned"
    /\ UNCHANGED <<dbVars, runVars, videoVars, chunkerVars, extractVars>>
    /\ UNCHANGED <<chunkTable, keywordRows, queryLog, query, options,
                   queryEmbedding, searchDbId, chunkSimilarities, vecOutcome>>

\* The vector path: results assembled, sorted and truncated.
SearchAssemble ==
    /\ spc = "assemble"
    /\ searchResult' = VectorResults(chunkSimilarities, query, options.limit)
    /\ spc' = "done"
    /\ searchEnd' = "returned"
    /\ UNCHANGED <<dbVars, runVars, videoVars, chunkerVars, extractVars>>
    /\ UNCHANGED <<chunkTable, keywordRows, queryLog, query, options,
                   queryEmbedding, searchDbId, chunkSimilarities, vecOutcome,
                   kwOutcome, kwReturn>>

SearchNext ==
    \/ SearchEmbed
    \/ SearchResolve
    \/ SearchLog
    \/ SearchVector
    \/ SearchKeyword
    \/ SearchAssemble

SearchSpec == SearchInit /\ [][SearchNext]_vars

\* --------------------------------------------- one processVideoWithYtdlp call
\* What the traced call leaves alone until its promise settles.
callerVars == <<channelRows, statusRows, channelDbId, batchChannelDbId, pc, url, maxVideos, channel,
                existing, videos, i, processedCount, inflight, error, result,
                myRow, statusLog, failedVideos, attempted, marked>>

searchLocals == <<queryLog, spc, query, options, queryEmbedding, searchDbId,
                  chunkSimilarities, searchResult, searchEnd, vecOutcome,
                  kwOutcome, kwReturn>>

\* The run that called processVideoWithYtdlp for the traced video.
TracedRun == 1

TracedPos == CHOOSE k \in DOMAIN videos[TracedRun] : videos[TracedRun][k] = TracedVideo

\* Transcripts, as the number of chunks createTranscriptChunks cuts them into.
TranscriptSizes == 0..(CHUNK_BATCH_SIZE + MaxExtraChunks)

IsSubtitle(f) == f \in {"en.vtt", "fallback.vtt"}

Note(tag) == vlog' = vlog \cup {tag}

\* The call starts: mkdir(tempDir, {recursive: true}).
VideoMkdir ==
    /\ vpc = "idle"
    /\ pc[TracedRun] = "awaitBatch"
    /\ TracedVideo \in {videos[TracedRun][k] : k \in inflight[TracedRun]}
    /\ \/ /\ tempDir' = [tempDir EXCEPT !.exists = TRUE]
          /\ vpc' = "primary"
          /\ UNCHANGED <<faults, vlog>>
       \/ /\ CanFault
          /\ faults' = faults + 1
          /\ vpc' = "raised"
          /\ Note("mkdirFailed")
          /\ UNCHANGED tempDir
    /\ UNCHANGED <<files, child, transcript, videoRecord, chunks, ci, chunkState>>
    /\ UNCHANGED <<callerVars, searchLocals, chunkerVars, extractVars, videoRows, chunkRows, chunkTable, keywordRows>>

\* Promise.race([execAsync(command), timeoutPromise]) settles: yt-dlp exited
\* with or without a subtitle file, failed, or is still running after 30 s.
VideoPrimary ==
    /\ vpc = "primary"
    /\ \/ /\ \E written \in {{}, {"info.json"}, {"info.json", "en.vtt"}} :
                tempDir' = [tempDir EXCEPT !.files = @ \cup written]
          /\ vpc' = "readdir"
          /\ UNCHANGED <<child, vlog>>
       \/ /\ \E written \in {{}, {"info.json"}} :
                tempDir' = [tempDir EXCEPT !.files = @ \cup written]
          /\ vpc' = "catchReaddir"
          /\ Note("execFailed")
          /\ UNCHANGED child
       \/ /\ child' = child \cup {"primary"}
          /\ vpc' = "catchReaddir"
          /\ Note("timeout")
          /\ UNCHANGED tempDir
    /\ UNCHANGED <<files, transcript, videoRecord, chunks, ci, chunkState, faults>>
    /\ UNCHANGED <<callerVars, searchLocals, chunkerVars, extractVars, videoRows, chunkRows, chunkTable, keywordRows>>

\* A yt-dlp child that lost the race was not killed: it writes its subtitle
\* file when the directory is still there, and exits.
YtdlpChildWrites ==
    /\ \E c \in child :
          /\ child' = child \ {c}
          /\ tempDir' = IF tempDir.exists
                        THEN [tempDir EXCEPT !.files =
                                 @ \cup {IF c = "primary" THEN "en.vtt" ELSE "fallback.vtt"}]
                        ELSE tempDir
    /\ UNCHANGED <<vpc, files, transcript, videoRecord, chunks, ci, chunkState, vlog, faults>>
    /\ UNCHANGED <<callerVars, searchLocals, chunkerVars, extractVars, videoRows, chunkRows, chunkTable, keywordRows>>

\* const files = await readdir(tempDir), and the choice of the subtitle file.
VideoReaddir ==
    /\ vpc = "readdir"
    /\ \/ /\ files' = tempDir.files
          /\ vpc' = IF \E f \in tempDir.files : IsSubtitle(f) THEN "read" ELSE "fallback"
          /\ UNCHANGED <<faults, vlog>>
       \/ /\ CanFault
          /\ faults' = faults + 1
          /\ vpc' = "catchReaddir"
          /\ Note("fsFailed")
          /\ UNCHANGED files
    /\ UNCHANGED <<tempDir, child, transcript, videoRecord, chunks, ci, chunkState>>
    /\ UNCHANGED <<callerVars, searchLocals, chunkerVars, extractVars, videoRows, chunkRows, chunkTable, keywordRows>>

\* readFile and parseVTTContent / parseSRTContent: the transcript, maybe "".
VideoRead ==
    /\ vpc = "read"
    /\ \/ /\ transcript' \in TranscriptSizes
          /\ vpc' = "cleanupUnlink"
          /\ UNCHANGED <<faults, vlog>>
       \/ /\ CanFault
          /\ faults' = faults + 1
          /\ vpc' = "catchReaddir"
          /\ Note("fsFailed")
          /\ UNCHANGED transcript
    /\ UNCHANGED <<tempDir, files, child, videoRecord, chunks, ci, chunkState>>
    /\ UNCHANGED <<callerVars, searchLocals, chunkerVars, extractVars, videoRows, chunkRows, chunkTable, keywordRows>>

\* No subtitle file was listed: the fallback command raced against the same
\* timeoutPromise.  Its failure and its timeout are caught and logged.
VideoFallback ==
    /\ vpc = "fallback"
    /\ \/ /\ \E written \in {{}, {"fallback.vtt"}} :
                tempDir' = [tempDir EXCEPT !.files = @ \cup written]
          /\ vpc' = "fallbackReaddir"
          /\ Note("fallback")
          /\ UNCHANGED child
       \/ /\ vpc' = "cleanupUnlink"
          /\ Note("fallbackFailed")
          /\ UNCHANGED <<tempDir, child>>
       \/ /\ child' = child \cup {"fallback"}
          /\ vpc' = "cleanupUnlink"
          /\ Note("timeout")
          /\ UNCHANGED tempDir
    /\ UNCHANGED <<files, transcript, videoRecord, chunks, ci, chunkState, faults>>
    /\ UNCHANGED <<callerVars, searchLocals, chunkerVars, extractVars, videoRows, chunkRows, chunkTable, keywordRows>>

\* const fallbackFiles = await readdir(tempDir), inside the fallback's try.
VideoFallbackReaddir ==
    /\ vpc = "fallbackReaddir"
    /\ \/ /\ vpc' = IF \E f \in tempDir.files : IsSubtitle(f)
                    THEN "fallbackRead" ELSE "cleanupUnlink"
          /\ UNCHANGED <<faults, vlog>>
       \/ /\ CanFault
          /\ faults' = faults + 1
          /\ vpc' = "cleanupUnlink"
          /\ Note("fallbackFailed")
    /\ UNCHANGED <<tempDir, files, child, transcript, videoRecord, chunks, ci, chunkState>>
    /\ UNCHANGED <<callerVars, searchLocals, chunkerVars, extractVars, videoRows, chunkRows, chunkTable, keywordRows>>

\* readFile of the fallback's subtitle file and its parse.
VideoFallbackRead ==
    /\ vpc = "fallbackRead"
    /\ \/ /\ transcript' \in TranscriptSizes
          /\ UNCHANGED <<faults, vlog>>
       \/ /\ CanFault
          /\ faults' = faults + 1
          /\ Note("fallbackFailed")
          /\ UNCHANGED transcript
    /\ vpc' = "cleanupUnlink"
    /\ UNCHANGED <<tempDir, files, child, videoRecord, chunks, ci, chunkState>>
    /\ UNCHANGED <<callerVars, searchLocals, chunkerVars, extractVars, videoRows, chunkRows, chunkTable, keywordRows>>

\* Lines 902-904: unlink of every file of the first listing.
VideoCleanupUnlink ==
    /\ vpc = "cleanupUnlink"
    /\ \/ /\ tempDir' = [tempDir EXCEPT !.files = @ \ files]
          /\ vpc' = "cleanupRmdir"
          /\ UNCHANGED <<faults, vlog>>
       \/ /\ CanFault
          /\ faults' = faults + 1
          /\ vpc' = "catchReaddir"
          /\ Note("fsFailed")
          /\ UNCHANGED tempDir
    /\ UNCHANGED <<files, child, transcript, videoRecord, chunks, ci, chunkState>>
    /\ UNCHANGED <<callerVars, searchLocals, chunkerVars, extractVars, videoRows, chunkRows, chunkTable, keywordRows>>

\* Line 924: if (!transcript)
TranscriptMissingNever(t) == FALSE

TranscriptMissing(t) == t = 0

\* Line 905: rmdir(tempDir) throws when a file is left; after it, the test of
\* `transcript` (lines 924-927).
VideoCleanupRmdir ==
    /\ vpc = "cleanupRmdir"
    /\ \/ /\ tempDir.files = {}
          /\ tempDir' = [tempDir EXCEPT !.exists = FALSE]
          /\ vpc' = IF TranscriptMissing(transcript) THEN "returned" ELSE "upsert"
          /\ IF TranscriptMissing(transcript)
             THEN Note("noTranscript") ELSE UNCHANGED vlog
          /\ UNCHANGED faults
       \/ /\ tempDir.files # {}
          /\ vpc' = "catchReaddir"
          /\ Note("notEmpty")
          /\ UNCHANGED <<tempDir, faults>>
       \/ /\ CanFault
          /\ faults' = faults + 1
          /\ vpc' = "catchReaddir"
          /\ Note("fsFailed")
          /\ UNCHANGED tempDir
    /\ UNCHANGED <<files, child, transcript, videoRecord, chunks, ci, chunkState>>
    /\ UNCHANGED <<callerVars, searchLocals, chunkerVars, extractVars, videoRows, chunkRows, chunkTable, keywordRows>>

\* The inner catch, lines 906-922: readdir, unlink of every file listed and
\* rmdir, inside a try whose catch ignores the error; then `return`.
VideoCatchReaddir ==
    /\ vpc = "catchReaddir"
    /\ \/ /\ tempDir.exists
          /\ files' = tempDir.files
          /\ vpc' = "catchUnlink"
          /\ UNCHANGED <<faults, vlog>>
       \/ /\ ~tempDir.exists
          /\ vpc' = "returned"
          /\ Note("failedToProcess")
          /\ UNCHANGED <<files, faults>>
       \/ /\ CanFault
          /\ faults' = faults + 1
          /\ vpc' = "returned"
          /\ Note("failedToProcess")
          /\ UNCHANGED files
    /\ UNCHANGED <<tempDir, child, transcript, videoRecord, chunks, ci, chunkState>>
    /\ UNCHANGED <<callerVars, searchLocals, chunkerVars, extractVars, videoRows, chunkRows, chunkTable, keywordRows>>

VideoCatchUnlink ==
    /\ vpc = "catchUnlink"
    /\ \/ /\ tempDir' = [tempDir EXCEPT !.files = @ \ files]
          /\ vpc' = "catchRmdir"
          /\ UNCHANGED <<faults, vlog>>
       \/ /\ CanFault
          /\ faults' = faults + 1
          /\ vpc' = "returned"
          /\ Note("failedToProcess")
          /\ UNCHANGED tempDir
    /\ UNCHANGED <<files, child, transcript, videoRecord, chunks, ci, chunkState>>
    /\ UNCHANGED <<callerVars, searchLocals, chunkerVars, extractVars, videoRows, chunkRows, chunkTable, keywordRows>>

VideoCatchRmdir ==
    /\ vpc = "catchRmdir"
    /\ \/ /\ tempDir.files = {}
          /\ tempDir' = [tempDir EXCEPT !.exists = FALSE]
          /\ UNCHANGED faults
       \/ /\ tempDir.files # {}
          /\ UNCHANGED <<tempDir, faults>>
       \/ /\ CanFault
          /\ faults' = faults + 1
          /\ UNCHANGED tempDir
    /\ vpc' = "returned"
    /\ Note("failedToProcess")
    /\ UNCHANGED <<files, child, transcript, videoRecord, chunks, ci, chunkState>>
    /\ UNCHANGED <<callerVars, searchLocals, chunkerVars, extractVars, videoRows, chunkRows, chunkTable, keywordRows>>

\* Lines 930-964: the Video upsert; videoRecord is the row it returns.
\* createTranscriptChunks inserts nothing for an empty transcript.
VideoUpsert ==
    /\ vpc = "upsert"
    /\ \/ /\ videoRows' = UpsertVideo(videoRows, TracedVideo, batchChannelDbId[TracedRun])
          /\ videoRecord' = VideoDbId(videoRows', TracedVideo)
          /\ vpc' = IF transcript = 0 THEN "chunkBatch" ELSE "createChunks"
          /\ UNCHANGED <<faults, vlog>>
       \/ /\ CanFault
          /\ faults' = faults + 1
          /\ vpc' = "raised"
          /\ Note("dbFailed")
          /\ UNCHANGED <<videoRows, videoRecord>>
    /\ UNCHANGED <<tempDir, files, child, transcript, chunks, ci, chunkState>>
    /\ UNCHANGED <<callerVars, searchLocals, chunkerVars, extractVars, chunkRows, chunkTable, keywordRows>>

\* createTranscriptChunks: one awaited insert per chunk, chunkIndex counting
\* from 0, embedding not yet set.
VideoInsertChunk ==
    /\ vpc = "createChunks"
    /\ Len(chunks) < transcript
    /\ \/ /\ chunkTable' = Append(chunkTable,
                [videoId |-> videoRecord, chunkIndex |-> Len(chunks),
                 content |-> ChunkContent(Len(chunkTable) + 1), embedding |-> NULL])
          /\ chunkRows' = chunkRows (+)
                SetToBag({[videoId |-> videoRecord, chunkIndex |-> Len(chunks)]})
          /\ chunks' = Append(chunks, Len(chunkTable) + 1)
          /\ chunkState' = Append(chunkState, "row")
          /\ vpc' = IF Len(chunks) + 1 = transcript THEN "chunkBatch" ELSE "createChunks"
          /\ UNCHANGED <<faults, vlog>>
       \/ /\ CanFault
          /\ faults' = faults + 1
          /\ vpc' = "raised"
          /\ Note("dbFailed")
          /\ UNCHANGED <<chunkTable, chunkRows, chunks, chunkState>>
    /\ UNCHANGED <<tempDir, files, child, transcript, videoRecord, ci>>
    /\ UNCHANGED <<callerVars, searchLocals, chunkerVars, extractVars, videoRows, keywordRows>>

ChunkBatch == (ci + 1)..Min(ci + CHUNK_BATCH_SIZE, Len(chunks))

\* One iteration of the chunk loop begins (chunkBatch.map starts every
\* processChunk call), or the loop is over and the call returns.
VideoChunkBatch ==
    /\ vpc = "chunkBatch"
    /\ \/ /\ ci < Len(chunks)
          /\ chunkState' = [k \in DOMAIN chunkState |->
                               IF k \in ChunkBatch THEN "inflight" ELSE chunkState[k]]
          /\ vpc' = "awaitChunks"
          /\ UNCHANGED vlog
       \/ /\ ci >= Len(chunks)
          /\ vpc' = "returned"
          /\ Note("processed")
          /\ UNCHANGED chunkState
    /\ UNCHANGED <<tempDir, files, child, transcript, videoRecord, chunks, ci, faults>>
    /\ UNCHANGED <<callerVars, searchLocals, chunkerVars, extractVars, videoRows, chunkRows, chunkTable, keywordRows>>

\* processChunk, lines 619-637: extractKeywordsFromTranscript and the keyword
\* insert stand outside any try, so their exceptions reject the call.
KeywordErrorEscapes == TRUE

\* processChunk, lines 640-652: generateEmbedding and the update of the chunk
\* row stand inside a try whose catch logs.
EmbeddingErrorEscapesUncaught == TRUE

EmbeddingErrorEscapes == FALSE

\* What one processChunk call can do.
ChunkOutcomes ==
    {[kind |-> "ok", keywords |-> TRUE, embedding |-> TRUE, rejects |-> FALSE],
     [kind |-> "embeddingFailed", keywords |-> TRUE, embedding |-> FALSE,
      rejects |-> EmbeddingErrorEscapes],
     [kind |-> "keywordsFailed", keywords |-> FALSE, embedding |-> FALSE,
      rejects |-> KeywordErrorEscapes]}

\* The processChunk call of the chunk at position c settles.  The calls of a
\* batch write rows of their own chunk only, so they are settled in index
\* order.  A rejection rejects Promise.all at once: the call raises (line
\* 980-982) while the other calls of the batch go on.
VideoProcessChunk(c) ==
    /\ c \in DOMAIN chunkState
    /\ chunkState[c] = "inflight"
    /\ \A b \in DOMAIN chunkState : chunkState[b] = "inflight" => c <= b
    /\ \E o \in ChunkOutcomes :
          /\ o.kind # "ok" => CanFault
          /\ faults' = IF o.kind # "ok" THEN faults + 1 ELSE faults
          /\ keywordRows' = IF o.keywords
                            THEN keywordRows \o ChunkKeywords(chunks[c])
                            ELSE keywordRows
          /\ chunkTable' = IF o.embedding
                           THEN [chunkTable EXCEPT ![chunks[c]].embedding =
                                    EmbeddingOf(chunkTable[chunks[c]].content)]
                           ELSE chunkTable
          /\ chunkState' = [chunkState EXCEPT ![c] = o.kind]
          /\ IF o.rejects /\ vpc = "awaitChunks"
             THEN vpc' = "raised" /\ Note("chunkFailed")
             ELSE UNCHANGED <<vpc, vlog>>
    /\ UNCHANGED <<tempDir, files, child, transcript, videoRecord, chunks, ci>>
    /\ UNCHANGED <<callerVars, searchLocals, chunkerVars, extractVars, videoRows, chunkRows>>

\* Promise.all of the chunk batch resolved.
VideoChunkBatchEnd ==
    /\ vpc = "awaitChunks"
    /\ \A k \in ChunkBatch : chunkState[k] \notin {"row", "inflight"}
    /\ ci' = ci + CHUNK_BATCH_SIZE
    /\ vpc' = "chunkBatch"
    /\ UNCHANGED <<tempDir, files, child, transcript, videoRecord, chunks,
                   chunkState, vlog, faults>>
    /\ UNCHANGED <<callerVars, searchLocals, chunkerVars, extractVars, videoRows, chunkRows, chunkTable, keywordRows>>

\* The batch callback of indexChannel (lines 165-180) around the traced call:
\* its promise resolves whether the call returned or raised.
VideoCallback ==
    /\ vpc \in {"returned", "raised"}
    /\ pc[TracedRun] = "awaitBatch"
    /\ TracedPos \in inflight[TracedRun]
    /\ LET o == [kind |-> IF vpc = "raised" THEN "throw" ELSE "ok"] IN
          /\ failedVideos' = [failedVideos EXCEPT ![TracedRun] =
                                IF o.kind = "throw" THEN @ \cup {TracedVideo} ELSE @]
          /\ IF VideoErrorEscapes(o)
             THEN /\ Throw(TracedRun, ErrVideo)
                  /\ inflight' = [inflight EXCEPT ![TracedRun] = {}]
             ELSE /\ inflight' = [inflight EXCEPT ![TracedRun] = @ \ {TracedPos}]
                  /\ UNCHANGED <<pc, error>>
    /\ UNCHANGED videoVars
    /\ UNCHANGED <<searchLocals, chunkerVars, extractVars, videoRows, chunkRows, chunkTable, keywordRows>>
    /\ UNCHANGED <<channelRows, statusRows, channelDbId, batchChannelDbId, url, maxVideos, channel,
                   existing, videos, i, processedCount, result, myRow, statusLog,
                   attempted, marked, faults>>

\* The rows the store holds for the traced video before the run: none, or the
\* Video row, chunk and keywords of an earlier indexing.
PriorVideoRows(prior) ==
    IF prior THEN <<[videoId |-> TracedVideo, channelId |-> 1]>> ELSE <<>>

PriorChunkTable(prior) ==
    IF prior
    THEN <<[videoId |-> 1, chunkIndex |-> 0, content |-> ChunkContent(1),
            embedding |-> EmbeddingOf(ChunkContent(1))]>>
    ELSE <<>>

PriorKeywordRows(prior) == IF prior THEN ChunkKeywords(1) ELSE <<>>

\* indexChannel("youtube.com/@c3") has reached its batch loop.
VideoInit ==
    /\ channelRows = <<[channelId |-> "c3", isIndexed |-> FALSE]>>
    /\ \E prior \in BOOLEAN :
          /\ videoRows = PriorVideoRows(prior)
          /\ chunkTable = PriorChunkTable(prior)
          /\ keywordRows = PriorKeywordRows(prior)
          /\ vlog = IF prior THEN {"prior"} ELSE {}
    /\ chunkRows = SetToBag({[videoId |-> chunkTable[k].videoId,
                              chunkIndex |-> chunkTable[k].chunkIndex] :
                                k \in DOMAIN chunkTable})
    /\ statusRows = <<[channelId |-> 1, status |-> "indexing_videos", progress |-> 10,
                       totalVideos |-> BATCH_SIZE + 1, processedVideos |-> 0,
                       errorMessage |-> NoError]>>
    /\ url = [r \in Runs |-> "youtube.com/@c3"]
    /\ maxVideos = [r \in Runs |-> 0]
    /\ channelDbId = [r \in Runs |-> IF r = TracedRun THEN 1 ELSE NULL]
    /\ batchChannelDbId = [r \in Runs |-> NULL]
    /\ pc = [r \in Runs |-> IF r = TracedRun THEN "batch" ELSE "start"]
    /\ channel = [r \in Runs |-> IF r = TracedRun THEN 1 ELSE NULL]
    /\ existing = [r \in Runs |-> FALSE]
    /\ videos = [r \in Runs |-> IF r = TracedRun
                                THEN ChannelVideos("youtube.com/@c3") ELSE <<>>]
    /\ i = [r \in Runs |-> 0]
    /\ processedCount = [r \in Runs |-> 0]
    /\ inflight = [r \in Runs |-> {}]
    /\ error = [r \in Runs |-> NoError]
    /\ result = [r \in Runs |-> [kind |-> "none", msg |-> NoError]]
    /\ faults = 0
    /\ myRow = [r \in Runs |-> IF r = TracedRun THEN 1 ELSE NULL]
    /\ statusLog = [r \in Runs |-> IF r = TracedRun
                                   THEN <<[status |-> "pending", progress |-> 0],
                                          [status |-> "indexing_videos", progress |-> 10]>>
                                   ELSE <<>>]
    /\ failedVideos = [r \in Runs |-> {}]
    /\ attempted = [r \in Runs |-> {}]
    /\ marked = [r \in Runs |-> FALSE]
    /\ SearchLocalsIdle
    /\ vpc = "idle"
    /\ tempDir = [exists |-> FALSE, files |-> {}]
    /\ files = {}
    /\ child = {}
    /\ transcript = 0
    /\ videoRecord = NULL
    /\ chunks = <<>>
    /\ ci = 0
    /\ chunkState = <<>>
    /\ ChunkerIdle
    /\ ExtractIdle

VideoNext ==
    \/ BatchStart(TracedRun)
    \/ \E k \in 1..(BATCH_SIZE + 1) : FinishVideo(TracedRun, k)
    \/ BatchEnd(TracedRun)
    \/ MarkChannelAsIndexed(TracedRun)
    \/ Complete(TracedRun)
    \/ Catch(TracedRun)
    \/ VideoMkdir
    \/ VideoPrimary
    \/ YtdlpChildWrites
    \/ VideoReaddir
    \/ VideoRead
    \/ VideoFallback
    \/ VideoFallbackReaddir
    \/ VideoFallbackRead
    \/ VideoCleanupUnlink
    \/ VideoCleanupRmdir
    \/ VideoCatchReaddir
    \/ VideoCatchUnlink
    \/ VideoCatchRmdir
    \/ VideoUpsert
    \/ VideoInsertChunk
    \/ VideoChunkBatch
    \/ \E c \in 1..(CHUNK_BATCH_SIZE + MaxExtraChunks) : VideoProcessChunk(c)
    \/ VideoChunkBatchEnd
    \/ VideoCallback

VideoSpec == VideoInit /\ [][VideoNext]_vars

\* ============================================== createTranscriptChunks
\* A text is a sequence of characters of three kinds: a sentence terminator
\* (one of . ! ?), a space, and a word, a run of other characters given by
\* its length.
DOT == -1
SP == 0

RECURSIVE CharLen(_)
CharLen(t) ==
    IF t = <<>> THEN 0
    ELSE IF Len(t) = 1 THEN (IF t[1] > 0 THEN t[1] ELSE 1)
    ELSE LET h == Len(t) \div 2
         IN CharLen(SubSeq(t, 1, h)) + CharLen(SubSeq(t, h + 1, Len(t)))

\* String.prototype.trim
RECURSIVE TrimStart(_)
TrimStart(t) == IF t # <<>> /\ Head(t) = SP THEN TrimStart(Tail(t)) ELSE t

RECURSIVE TrimEnd(_)
TrimEnd(t) ==
    IF t # <<>> /\ t[Len(t)] = SP THEN TrimEnd(SubSeq(t, 1, Len(t) - 1)) ELSE t

Trim(t) == TrimEnd(TrimStart(t))

\* The pieces of t between the positions in `seps`, which separate them.
PiecesBetween(t, seps) ==
    LET nth(j) == CHOOSE p \in seps : Cardinality({q \in seps : q < p}) = j - 1
        from(j) == IF j = 1 THEN 1 ELSE nth(j - 1) + 1
        to(j) == IF j = Cardinality(seps) + 1 THEN Len(t) ELSE nth(j) - 1
    IN [j \in 1..(Cardinality(seps) + 1) |-> SubSeq(t, from(j), to(j))]

\* text.split(SENTENCE_SPLIT_REGEX): a run of terminators separates two
\* pieces, so the pieces a run encloses are dropped.
SplitSentenceEnds(t) ==
    LET dots == {k \in DOMAIN t : t[k] = DOT}
        all == PiecesBetween(t, dots)
        \* piece j + 1 lies inside a run when terminators enclose it directly
        inRun(j) == j > 1 /\ all[j] = <<>> /\ j <= Cardinality(dots)
    IN SelectSeq([j \in DOMAIN all |-> [piece |-> all[j], drop |-> inRun(j)]],
                 LAMBDA x : ~x.drop)

\* text.split(" "): every single space separates two words, so two spaces in
\* a row enclose an empty word.
SplitSpaces(t) == PiecesBetween(t, {k \in DOMAIN t : t[k] = SP})

\* Array.prototype.join
RECURSIVE Join(_, _)
Join(parts, sep) ==
    IF parts = <<>> THEN <<>>
    ELSE IF Len(parts) = 1 THEN parts[1]
    ELSE parts[1] \o <<sep>> \o Join(Tail(parts), sep)

splitIntoSentences(text) ==
    LET pieces == SplitSentenceEnds(text)
        trimmed == [k \in DOMAIN pieces |-> Trim(pieces[k].piece)]
    IN SelectSeq(trimmed, LAMBDA x : Len(x) > 0)

\* Math.ceil(text.length / 4)
estimateTokenCount(text) == (CharLen(text) + 3) \div 4

\* words.slice(-overlapWords).join(" ")
getOverlapText(text, overlapTokens) ==
    LET words == SplitSpaces(text)
        overlapWords == overlapTokens \div 4
        from == IF Len(words) > overlapWords THEN Len(words) - overlapWords + 1 ELSE 1
    IN Join(SubSeq(words, from, Len(words)), SP)

NewChunkOverlapOnly(overlapText, sentence) == overlapText

\* `${overlapText} ${sentence}`
NewChunk(overlapText, sentence) == overlapText \o <<SP>> \o sentence

NextStartTimeZero(chunk) == 0

\* startTime = chunk.endTime
NextStartTime(chunk) == chunk.endTime

\* The row one insert of createTranscriptChunks writes and gets back.
ChunkRow ==
    [chunkIndex |-> Len(chunkList),
     content |-> Trim(currentChunk),
     startTime |-> startTime,
     endTime |-> startTime + (currentTokens * 60) \div 4,
     tokenCount |-> currentTokens]

\* The pieces transcripts are put together from: nothing, a space, a word of
\* 3 characters, 7 words of 110 characters after a leading space (194
\* tokens), the same with two spaces after the third word, and a word of
\* 1801 characters (451 tokens).
Words(n, len) == Join([k \in 1..n |-> <<len>>], SP)

Pieces ==
    {<<>>, <<SP>>, <<3>>,
     <<SP>> \o Words(7, 110),
     Words(3, 110) \o <<SP, SP>> \o Words(4, 110),
     <<1801>>}

\* The transcripts: 1 .. MaxPieces pieces with a terminator between two.
Transcripts ==
    UNION {{Join(ps, DOT) : ps \in [1..n -> Pieces]} : n \in 1..MaxPieces}

\* const sentences = this.splitIntoSentences(transcript) and the locals
ChunkStart ==
    /\ cpc = "start"
    /\ sentences' = splitIntoSentences(transcriptText)
    /\ si' = 1
    /\ cpc' = "loop"
    /\ UNCHANGED <<transcriptText, currentChunk, currentTokens, startTime,
                   chunkList, overlapTexts>>
    /\ UNCHANGED <<dbVars, runVars, searchVars, videoVars, extractVars>>

\* One iteration of `for (const sentence of sentences)`, its insert included.
ChunkSentence ==
    /\ cpc = "loop"
    /\ si <= Len(sentences)
    /\ LET sentence == sentences[si]
           sentenceTokens == estimateTokenCount(sentence)
       IN IF currentTokens + sentenceTokens > CHUNK_SIZE /\ currentChunk # <<>>
          THEN LET chunk == ChunkRow
                   overlapText == getOverlapText(currentChunk, CHUNK_OVERLAP)
               IN /\ chunkList' = Append(chunkList, chunk)
                  /\ overlapTexts' = Append(overlapTexts, overlapText)
                  /\ currentChunk' = NewChunk(overlapText, sentence)
                  /\ currentTokens' = estimateTokenCount(currentChunk')
                  /\ startTime' = NextStartTime(chunk)
          ELSE /\ currentChunk' = currentChunk
                      \o (IF currentChunk # <<>> THEN <<SP>> ELSE <<>>) \o sentence
               /\ currentTokens' = currentTokens + sentenceTokens
               /\ UNCHANGED <<startTime, chunkList, overlapTexts>>
    /\ si' = si + 1
    /\ UNCHANGED <<cpc, transcriptText, sentences>>
    /\ UNCHANGED <<dbVars, runVars, searchVars, videoVars, extractVars>>

\* The final chunk and the return.
ChunkFinal ==
    /\ cpc = "loop"
    /\ si > Len(sentences)
    /\ chunkList' = IF currentChunk # <<>> THEN Append(chunkList, ChunkRow)
                    ELSE chunkList
    /\ cpc' = "done"
    /\ UNCHANGED <<transcriptText, sentences, si, currentChunk, currentTokens,
                   startTime, overlapTexts>>
    /\ UNCHANGED <<dbVars, runVars, searchVars, videoVars, extractVars>>

ChunkInit ==
    /\ channelRows = <<>>
    /\ videoRows = <<>>
    /\ chunkRows = EmptyBag
    /\ statusRows = <<>>
    /\ url = [r \in Runs |-> "youtube.com/@c1"]
    /\ maxVideos = [r \in Runs |-> 0]
    /\ channelDbId = [r \in Runs |-> NULL]
    /\ RunsIdle
    /\ SearchIdle
    /\ VideoIdle
    /\ ExtractIdle
    /\ cpc = "start"
    /\ transcriptText \in Transcripts
    /\ sentences = <<>>
    /\ si = 0
    /\ currentChunk = <<>>
    /\ currentTokens = 0
    /\ startTime = 0
    /\ chunkList = <<>>
    /\ overlapTexts = <<>>

ChunkNext ==
    \/ ChunkStart
    \/ ChunkSentence
    \/ ChunkFinal

ChunkSpec == ChunkInit /\ [][ChunkNext]_vars

\* ======================================== extractKeywordsFromTranscript
\* What the pipeline can answer for one token: scores in hundredths.
Hits == [word : {"Obama", "obama"}, entity : {"B-PER", "I-PER"}, score : {50, 60, 90}]

\* `${keyword.word.toLowerCase()}_${keyword.entity}`
KeywordKey(keyword) == toLowerCase(keyword.word) \o "_" \o keyword.entity

PassesScoreFilterOrEqual(item) == item.score >= 50

\* item.score > 0.5
PassesScoreFilter(item) == item.score > 50

\* The loop over rawKeywords: `map` holds the values of keywordMap in the
\* order their keys were inserted.
RECURSIVE KeywordMapValues(_, _)
KeywordMapValues(raw, map) ==
    IF raw = <<>> THEN map
    ELSE LET keyword == Head(raw)
             at == {k \in DOMAIN map : KeywordKey(map[k]) = KeywordKey(keyword)}
         IN IF at = {}
            THEN KeywordMapValues(Tail(raw), Append(map, keyword))
            ELSE LET k == CHOOSE x \in at : TRUE
                 IN IF map[k].score < keyword.score
                    THEN KeywordMapValues(Tail(raw), [map EXCEPT ![k] = keyword])
                    ELSE KeywordMapValues(Tail(raw), map)

\* sort((a, b) => b.score - a.score): stable, descending by score.
RECURSIVE InsertByKeywordScore(_, _)
InsertByKeywordScore(sorted, x) ==
    IF sorted = <<>> THEN <<x>>
    ELSE IF Head(sorted).score < x.score THEN <<x>> \o sorted
    ELSE <<Head(sorted)>> \o InsertByKeywordScore(Tail(sorted), x)

RECURSIVE SortByKeywordScore(_)
SortByKeywordScore(xs) ==
    IF xs = <<>> THEN <<>>
    ELSE InsertByKeywordScore(SortByKeywordScore(SubSeq(xs, 1, Len(xs) - 1)),
                              xs[Len(xs)])

\* Filter, deduplicate, sort and return.
ExtractKeywords ==
    /\ xpc = "start"
    /\ LET rawKeywords == SelectSeq(nerResults, PassesScoreFilter)
       IN keywordsOut' = SortByKeywordScore(KeywordMapValues(rawKeywords, <<>>))
    /\ xpc' = "done"
    /\ UNCHANGED nerResults
    /\ UNCHANGED <<dbVars, runVars, searchVars, videoVars, chunkerVars>>

ExtractInit ==
    /\ channelRows = <<>>
    /\ videoRows = <<>>
    /\ chunkRows = EmptyBag
    /\ statusRows = <<>>
    /\ url = [r \in Runs |-> "youtube.com/@c1"]
    /\ maxVideos = [r \in Runs |-> 0]
    /\ channelDbId = [r \in Runs |-> NULL]
    /\ RunsIdle
    /\ SearchIdle
    /\ VideoIdle
    /\ ChunkerIdle
    /\ xpc = "start"
    /\ nerResults \in UNION {[1..n -> Hits] : n \in 0..MaxHits}
    /\ keywordsOut = <<>>

ExtractNext ==
    \/ ExtractKeywords

ExtractSpec == ExtractInit /\ [][ExtractNext]_vars

\* ===================================================================== claims

\* C1: when the embedding call for the query fails, search() raises nothing
\* and returns what keywordSearch returns for the same query and options.
C1_EmbedFailureFallsBack ==
    (spc = "done" /\ queryEmbedding = NULL) =>
        /\ searchEnd = "returned"
        /\ searchResult \in keywordSearch(query, options)

\* C2: when findSimilarChunks throws or returns no chunk, search() returns
\* exactly the list keywordSearch returned for the same query and options,
\* and the empty list, raising nothing, when keywordSearch threw too.
C2_FallbackIsKeywordSearch ==
    (spc = "done" /\ vecOutcome # "none" /\ chunkSimilarities = <<>>) =>
        /\ searchEnd = "returned"
        /\ kwOutcome \in {"threw", "returned"}
        /\ kwOutcome = "threw" => searchResult = <<>>
        /\ kwOutcome = "returned" =>
              /\ searchResult = kwReturn
              /\ kwReturn \in keywordSearch(query, options)

C2_Witness ==
    /\ spc = "done"
    /\ vecOutcome = "threw"
    /\ kwOutcome = "returned"
    /\ searchResult # <<>>

\* C3: a status row changes status only along pending -> indexing_videos ->
\* completed, or to failed from pending or indexing_videos; a completed or
\* failed row never changes status again.
C3_StatusTransitions ==
    [][\A k \in DOMAIN statusRows :
          statusRows'[k].status # statusRows[k].status =>
             <<statusRows[k].status, statusRows'[k].status>> \in
                {<<"pending", "indexing_videos">>, <<"indexing_videos", "completed">>,
                 <<"pending", "failed">>, <<"indexing_videos", "failed">>}]_vars

\* C4: a run that raised left its status row failed with the message of the
\* exception that escaped its body, and raised that same exception.
C4_FailureRecordedAndReraised ==
    \A r \in Runs :
        result[r].kind = "raised" =>
            /\ myRow[r] # NULL
            /\ statusRows[myRow[r]].status = "failed"
            /\ statusRows[myRow[r]].errorMessage = error[r]
            /\ result[r].msg = error[r]

\* C5: the settling of one video, thrown or not, leaves every status row and
\* the other videos of the batch alone and keeps the run in its batch; a run
\* in which no exception reached indexChannel's catch handed every video to
\* processVideoWithYtdlp and returns with its status row completed.
C5_PerVideoErrorsContained ==
    [][\A r \in Runs :
          /\ (pc[r] = "awaitBatch" /\ inflight'[r] # inflight[r]) =>
                /\ statusRows' = statusRows
                /\ pc'[r] = "awaitBatch"
                /\ error'[r] = error[r]
                /\ Cardinality(inflight'[r]) = Cardinality(inflight[r]) - 1
          /\ (pc[r] # "done" /\ pc'[r] = "done" /\ error'[r] = NoError) =>
                /\ result'[r].kind = "returned"
                /\ attempted'[r] = {videos[r][k] : k \in DOMAIN videos[r]}
                /\ myRow[r] # NULL
                /\ statusRows'[myRow[r]].status = "completed"]_vars

C5_Witness ==
    \E r \in Runs :
        /\ result[r].kind = "returned"
        /\ Len(videos[r]) > BATCH_SIZE
        /\ \E v \in failedVideos[r] : v <= BATCH_SIZE
        /\ statusRows[myRow[r]].status = "completed"

NonDecreasing(seq) ==
    \A a, b \in DOMAIN seq : a <= b => seq[a].progress <= seq[b].progress

\* C6 as stated: the progress values a run writes to its status row never
\* decrease, the write of the failure path included.
C6_ProgressNonDecreasing ==
    \A r \in Runs : NonDecreasing(statusLog[r])

\* C6 amended: the progress values written by the updates other than the
\* failure update never decrease; the failure update writes progress 0.
C6_ProgressNonDecreasingUntilFailure ==
    \A r \in Runs :
        /\ NonDecreasing(SelectSeq(statusLog[r], LAMBDA e : e.status # "failed"))
        /\ \A a \in DOMAIN statusLog[r] :
              statusLog[r][a].status = "failed" =>
                 /\ statusLog[r][a].progress = 0
                 /\ a = Len(statusLog[r])

C6_Witness ==
    \E r \in Runs :
        /\ Len(statusLog[r]) >= 4
        /\ statusLog[r][Len(statusLog[r])].status = "failed"
        /\ statusLog[r][Len(statusLog[r]) - 1].progress > 10

\* C7: there is never more than one Channel row per external channel id nor
\* more than one Video row per external video id; a run that got past
\* createChannelRecord holds the one row of its channel, and a run that
\* returned left a row for every video it persisted.
C7_OneRowPerExternalId ==
    /\ \A a, b \in DOMAIN channelRows :
          channelRows[a].channelId = channelRows[b].channelId => a = b
    /\ \A a, b \in DOMAIN videoRows :
          videoRows[a].videoId = videoRows[b].videoId => a = b
    /\ \A r \in Runs :
          channel[r] # NULL =>
             /\ channel[r] \in DOMAIN channelRows
             /\ channelRows[channel[r]].channelId = extractChannelIdFromUrl(url[r])
    /\ \A r \in Runs :
          result[r].kind = "returned" =>
             \A v \in attempted[r] \ failedVideos[r] :
                HasTranscript(v) => \E a \in DOMAIN videoRows : videoRows[a].videoId = v

C7_Witness ==
    /\ \A r \in Runs : result[r].kind = "returned"
    /\ url[1] = url[2]
    /\ videos[1] = videos[2]
    /\ 1 \in attempted[1] \cap attempted[2]
    /\ Len(channelRows) = 1
    /\ \E a \in DOMAIN videoRows : videoRows[a].videoId = 1

\* C8: no two chunk rows of a video share a chunkIndex, and the chunkIndex
\* values of a video are 0 .. n-1.
C8_ChunkIndexUnique ==
    /\ \A e \in BagToSet(chunkRows) : CopiesIn(e, chunkRows) = 1
    /\ \A e \in BagToSet(chunkRows) :
          \A c \in 0..e.chunkIndex :
             [videoId |-> e.videoId, chunkIndex |-> c] \in BagToSet(chunkRows)

\* C9: once the runs have returned, each channel has exactly one status row.
C9_OneStatusRowPerChannel ==
    (\A r \in Runs : result[r].kind = "returned") =>
        \A c \in DOMAIN channelRows :
            Cardinality({k \in DOMAIN statusRows : statusRows[k].channelId = c}) = 1

\* C10: a run that raised has not executed markChannelAsIndexed.
C10_IndexedOnlyOnCompletion ==
    \A r \in Runs : result[r].kind = "raised" => ~marked[r]

\* The store as it was before the traced call.
RowsAsBefore ==
    /\ videoRows = PriorVideoRows("prior" \in vlog)
    /\ chunkTable = PriorChunkTable("prior" \in vlog)
    /\ keywordRows = PriorKeywordRows("prior" \in vlog)

ChunksInFlight == {k \in DOMAIN chunkState : chunkState[k] = "inflight"}

\* C11: when the keyword extraction or the keyword insert of a chunk has
\* failed and every call has settled, every other chunk of the video, those
\* of later chunk batches included, has had its processChunk call.
C11_KeywordFailureContained ==
    (/\ vpc \in {"returned", "raised"}
     /\ ChunksInFlight = {}
     /\ \E c \in DOMAIN chunkState : chunkState[c] = "keywordsFailed"
     /\ "dbFailed" \notin vlog)
        => \A k \in DOMAIN chunkState :
              chunkState[k] \in {"ok", "embeddingFailed", "keywordsFailed"}

\* C12: the processChunk call whose embedding fails does not raise: the call
\* of the video and the run stay where they are, the chunk row keeps its null
\* embedding and the chunk's keyword rows are written and stay; a call that
\* returns after its chunk loop has processed every chunk of the transcript.
C12_EmbeddingFailureContained ==
    [][/\ \A c \in DOMAIN chunkState :
             (chunkState[c] = "inflight" /\ chunkState'[c] = "embeddingFailed") =>
                /\ vpc' = vpc
                /\ pc' = pc
                /\ error' = error
                /\ chunkTable' = chunkTable
                /\ chunkTable'[chunks[c]].embedding = NULL
                /\ keywordRows' = keywordRows \o ChunkKeywords(chunks[c])
       /\ (\E c \in DOMAIN chunkState : chunkState[c] = "embeddingFailed") =>
             /\ Len(keywordRows') >= Len(keywordRows)
             /\ SubSeq(keywordRows', 1, Len(keywordRows)) = keywordRows
             /\ \A c \in DOMAIN chunkState :
                   chunkState[c] = "embeddingFailed" =>
                      /\ chunkState'[c] = "embeddingFailed"
                      /\ chunkTable'[chunks[c]].embedding = NULL
       /\ (vpc # "returned" /\ vpc' = "returned" /\ "processed" \in vlog') =>
             /\ Len(chunks) = transcript
             /\ \A k \in DOMAIN chunkState : chunkState[k] \in {"ok", "embeddingFailed"}
      ]_vars

C12_Witness ==
    /\ vpc = "returned"
    /\ "processed" \in vlog
    /\ Len(chunks) > CHUNK_BATCH_SIZE
    /\ chunkState[1] = "embeddingFailed"
    /\ chunkState[Len(chunks)] = "ok"
    /\ result[TracedRun].kind = "returned"

\* The traced call returned without a transcript to persist.
NoTranscript ==
    /\ vpc = "returned"
    /\ transcript = 0 \/ "failedToProcess" \in vlog

\* C13: a call that ends without a transcript has written and changed no
\* Video, TranscriptChunk or Keyword row and is no failure of its batch, and
\* the end of its batch counts the video in processedCount.
C13_NoTranscriptSkipped ==
    [][/\ NoTranscript' =>
             /\ RowsAsBefore'
             /\ TracedVideo \notin failedVideos'[TracedRun]
             /\ error'[TracedRun] # ErrVideo
       /\ (NoTranscript /\ i[TracedRun] = 0 /\ pc[TracedRun] = "awaitBatch"
              /\ pc'[TracedRun] # "awaitBatch") =>
             /\ inflight[TracedRun] = {}
             /\ processedCount'[TracedRun] = BATCH_SIZE
      ]_vars

C13_Witness ==
    /\ NoTranscript
    /\ "timeout" \in vlog
    /\ "prior" \in vlog
    /\ result[TracedRun].kind = "returned"
    /\ processedCount[TracedRun] = BATCH_SIZE + 1
    /\ statusRows[1].processedVideos = BATCH_SIZE + 1

C15_TempDirDeleted ==
    vpc \in {"returned", "raised"} => (~tempDir.exists /\ tempDir.files = {})

\* search() ended on its vector path: findSimilarChunks returned candidates.
VectorPath == spc = "done" /\ vecOutcome = "returned" /\ chunkSimilarities # <<>>

ChannelHandleOf(c) == channelRows[videoRows[chunkTable[c].videoId].channelId].channelId

\* C16: when options.channelId names no Channel row, search() returns the
\* empty list, and neither the vector query nor the keyword query has run
\* nor has a SearchQuery row been written.
C16_UnknownChannelReturnsEmpty ==
    (/\ spc = "done"
     /\ options.channelId # ""
     /\ getChannelDbIdByHandle(options.channelId) = NULL)
        => /\ searchEnd = "returned"
           /\ searchResult = <<>>
           /\ vecOutcome = "none"
           /\ kwOutcome = "none"
           /\ queryLog = <<>>

\* C17: every result of the vector path is a chunk with an embedding whose
\* similarity to the query embedding is strictly above similarityThreshold
\* and, under a channel scope, a chunk of a video of that channel.
C17_VectorResultsAboveThreshold ==
    VectorPath =>
        \A a \in DOMAIN searchResult :
            LET c == searchResult[a].chunk IN
            /\ chunkTable[c].embedding # NULL
            /\ Similarity(chunkTable[c].embedding, queryEmbedding)
                  > options.similarityThreshold
            /\ options.channelId # "" => ChannelHandleOf(c) = options.channelId

C17_Witness ==
    /\ VectorPath
    /\ searchResult # <<>>
    /\ options.channelId = "c1"
    /\ \E k \in DOMAIN chunkTable :
          /\ ChannelHandleOf(k) = "c2"
          /\ chunkTable[k].embedding # NULL
          /\ Similarity(chunkTable[k].embedding, queryEmbedding)
                > options.similarityThreshold

\* C18: every relevanceScore of a returned list lies in 0 .. 1.
C18_ScoreInUnitInterval ==
    searchEnd = "returned" =>
        \A a \in DOMAIN searchResult :
            /\ searchResult[a].relevanceScore.den > 0
            /\ 0 <= searchResult[a].relevanceScore.num
            /\ searchResult[a].relevanceScore.num <= searchResult[a].relevanceScore.den

\* C19: a returned list is in non-increasing order of relevanceScore, has at
\* most `limit` entries and holds no chunk twice.
C19_SortedTruncatedDistinct ==
    searchEnd = "returned" =>
        /\ Len(searchResult) <= options.limit
        /\ \A a, b \in DOMAIN searchResult :
              a < b => ~FracLess(searchResult[a].relevanceScore,
                                 searchResult[b].relevanceScore)
        /\ \A a, b \in DOMAIN searchResult :
              searchResult[a].chunk = searchResult[b].chunk => a = b

C19_Witness ==
    /\ VectorPath
    /\ Len(chunkSimilarities) > options.limit
    /\ Len(searchResult) = options.limit
    /\ \E k \in DOMAIN chunkTable :
          /\ \A a \in DOMAIN searchResult : searchResult[a].chunk # k
          /\ \E a \in DOMAIN chunkSimilarities : chunkSimilarities[a].chunk = k
          /\ \E a \in DOMAIN chunkSimilarities :
                /\ chunkSimilarities[a].chunk = searchResult[1].chunk
                /\ chunkSimilarities[a].similarity < 100

\* The keyword rows the query of keywordSearch selects.
KeywordHits ==
    {j \in DOMAIN keywordRows :
        KeywordWhere(j, extractKeywordsFromQuery(query),
                     IF options.channelId # ""
                     THEN getChannelDbIdByHandle(options.channelId) ELSE NULL)}

\* C20: no candidate of findSimilarChunks has a null embedding; and a chunk
\* with a null embedding and a keyword row containing a query keyword, in
\* the channel scope if one is given, is in the list keywordSearch returns
\* unless one of its two limits cut the list.
C20_NullEmbeddingKeywordOnly ==
    /\ \A a \in DOMAIN chunkSimilarities :
          chunkTable[chunkSimilarities[a].chunk].embedding # NULL
    /\ kwOutcome = "returned" =>
          \A k \in DOMAIN chunkTable :
             (/\ chunkTable[k].embedding = NULL
              /\ options.channelId # "" => ChannelHandleOf(k) = options.channelId
              /\ \E j \in DOMAIN keywordRows :
                    /\ keywordRows[j].chunkId = k
                    /\ \E m \in DOMAIN extractKeywordsFromQuery(query) :
                          Like(keywordRows[j].keyword, extractKeywordsFromQuery(query)[m]))
                => \/ \E a \in DOMAIN kwReturn : kwReturn[a].chunk = k
                   \/ Len(kwReturn) = options.limit
                   \/ Cardinality(KeywordHits) > 2 * options.limit

C20_Witness ==
    /\ spc = "done"
    /\ vecOutcome = "returned"
    /\ kwOutcome = "returned"
    /\ \E k \in DOMAIN chunkTable : chunkTable[k].embedding # NULL
    /\ Len(searchResult) < options.limit
    /\ \E a \in DOMAIN searchResult : chunkTable[searchResult[a].chunk].embedding = NULL

\* C21 as stated: "Tell me about Barack Obama" yields tell, barack, obama.
C21_QueryKeywordsWithoutAbout ==
    query = "Tell me about Barack Obama"
        => extractKeywordsFromQuery(query) = <<"tell", "barack", "obama">>

\* C21: the keywords of the query are its lower-cased white-space tokens
\* longer than 2 characters that are no stop-words, in their order; "about"
\* is no stop-word, so "Tell me about Barack Obama" yields tell, about,
\* barack, obama.
C21_QueryKeywords ==
    LET kws == extractKeywordsFromQuery(query) IN
    /\ \A a \in DOMAIN kws :
          /\ Len(kws[a]) > 2
          /\ kws[a] = toLowerCase(kws[a])
          /\ kws[a] \notin StopWords
          /\ ~Includes(kws[a], " ")
          /\ Includes(toLowerCase(query), kws[a])
    /\ query = "Tell me about Barack Obama"
          => kws = <<"tell", "about", "barack", "obama">>
    /\ query = "the obama" => kws = <<"obama">>

C21_Witness ==
    /\ query = "Tell me about Barack Obama"
    /\ kwOutcome = "returned"
    /\ kwReturn # <<>>

\* The words of a text: its runs of characters other than spaces.
WordsOf(t) == SelectSeq(t, LAMBDA c : c # SP)

RECURSIVE Concat(_)
Concat(ss) == IF ss = <<>> THEN <<>> ELSE Head(ss) \o Concat(Tail(ss))

\* C22: the chunks one call emits start at 0, each chunk starts where the
\* chunk before it ends, and no chunk ends before it starts.
C22_ContiguousTimes ==
    /\ chunkList # <<>> => chunkList[1].startTime = 0
    /\ \A k \in DOMAIN chunkList :
          /\ chunkList[k].chunkIndex = k - 1
          /\ chunkList[k].startTime <= chunkList[k].endTime
          /\ k < Len(chunkList) => chunkList[k].endTime = chunkList[k + 1].startTime

C22_Witness ==
    /\ cpc = "done"
    /\ Len(chunkList) >= 3
    /\ chunkList[2].startTime > 0
    /\ chunkList[3].startTime > chunkList[2].startTime

\* C23: a call emits at least one chunk if and only if its transcript is
\* not the empty string.
C23_ChunkIffNonEmpty ==
    cpc = "done" => (Len(chunkList) >= 1 <=> transcriptText # <<>>)

\* C24: the chunks without their leading overlap words, one after the other,
\* are the words of the sentences of the transcript in their order, and the
\* overlap words of a chunk are the last words of the chunk before it.
C24_ChunksReproduceSentences ==
    cpc = "done" =>
        /\ Len(overlapTexts) = Len(chunkList) - (IF chunkList = <<>> THEN 0 ELSE 1)
        /\ \A k \in DOMAIN overlapTexts :
              LET ov == WordsOf(overlapTexts[k])
                  prev == WordsOf(chunkList[k].content)
                  this == WordsOf(chunkList[k + 1].content)
              IN /\ Len(ov) <= Len(prev) /\ Len(ov) <= Len(this)
                 /\ ov = SubSeq(prev, Len(prev) - Len(ov) + 1, Len(prev))
                 /\ ov = SubSeq(this, 1, Len(ov))
        /\ Concat([k \in DOMAIN chunkList |->
                     LET this == WordsOf(chunkList[k].content)
                     IN IF k = 1 THEN this
                        ELSE SubSeq(this, Len(WordsOf(overlapTexts[k - 1])) + 1, Len(this))])
              = Concat([j \in DOMAIN sentences |-> WordsOf(sentences[j])])
        /\ sentences = splitIntoSentences(transcriptText)

C24_Witness ==
    /\ cpc = "done"
    /\ Len(chunkList) >= 2
    /\ \E k \in DOMAIN overlapTexts :
          /\ Len(WordsOf(overlapTexts[k])) < Len(WordsOf(chunkList[k].content))
          /\ Len(WordsOf(overlapTexts[k])) < CHUNK_OVERLAP \div 4

\* C25: the returned keywords are model hits of score above 0.5, one per
\* (lower-cased word, entity) pair that has such a hit, each with the
\* highest score among the hits of its pair, in non-increasing score order.
C25_KeywordsFilteredDedupedSorted ==
    xpc = "done" =>
        /\ \A a \in DOMAIN keywordsOut :
              /\ keywordsOut[a].score > 50
              /\ \E h \in DOMAIN nerResults : nerResults[h] = keywordsOut[a]
              /\ \A h \in DOMAIN nerResults :
                    KeywordKey(nerResults[h]) = KeywordKey(keywordsOut[a])
                        => nerResults[h].score <= keywordsOut[a].score
        /\ \A a, b \in DOMAIN keywordsOut :
              /\ KeywordKey(keywordsOut[a]) = KeywordKey(keywordsOut[b]) => a = b
              /\ a < b => keywordsOut[a].score >= keywordsOut[b].score
        /\ \A h \in DOMAIN nerResults :
              nerResults[h].score > 50
                  => \E a \in DOMAIN keywordsOut :
                        KeywordKey(keywordsOut[a]) = KeywordKey(nerResults[h])

C25_Witness ==
    /\ xpc = "done"
    /\ Len(keywordsOut) = 1
    /\ \E g, h, j \in DOMAIN nerResults :
          /\ g < h
          /\ nerResults[g].word = "Obama" /\ nerResults[h].word = "obama"
          /\ nerResults[g].entity = nerResults[h].entity
          /\ nerResults[g].score = 60 /\ nerResults[h].score = 90
          /\ keywordsOut[1] = nerResults[h]
          /\ nerResults[j].entity # nerResults[g].entity
          /\ nerResults[j].score = 50

\* C26: a run that has created its status row eventually leaves it completed
\* or failed, and at the step a run ends, returning or raising, its row is
\* neither pending nor indexing_videos.
C26_RunSettlesStatus ==
    /\ \A r \in Runs :
          (myRow[r] # NULL)
              ~> (/\ myRow[r] # NULL
                  /\ statusRows[myRow[r]].status \in {"completed", "failed"})
    /\ [][\A r \in Runs :
            (result[r].kind = "none" /\ result'[r].kind # "none" /\ myRow[r] # NULL)
                => statusRows'[myRow[r]].status \in {"completed", "failed"}]_vars

\* C27: the update after a batch writes, to the run's status row,
\* processedVideos = the videos of all finished batches, totalVideos, and
\* progress = round(20 + processedVideos / totalVideos * 30), with
\* processedVideos <= totalVideos and 20 <= progress <= 50; the completion
\* update writes processedVideos = totalVideos and progress = 100.
C27_BatchProgressPersisted ==
    [][\A r \in Runs :
         /\ (pc[r] = "awaitBatch" /\ pc'[r] = "batch") =>
               LET row == statusRows'[myRow[r]]
                   t == Len(videos[r])
                   p == Min(i[r] + BATCH_SIZE, t)
               IN /\ row.status = "indexing_videos"
                  /\ row.totalVideos = t
                  /\ row.processedVideos = p
                  /\ p = Cardinality({k \in DOMAIN videos[r] : k < i'[r] + 1})
                  /\ row.processedVideos <= row.totalVideos
                  /\ 2 * t * row.progress <= 2 * (20 * t + 30 * p) + t
                  /\ 2 * (20 * t + 30 * p) + t < 2 * t * (row.progress + 1)
                  /\ 20 <= row.progress /\ row.progress <= 50
         /\ (pc[r] = "complete" /\ pc'[r] = "done") =>
               LET row == statusRows'[myRow[r]]
               IN /\ row.status = "completed"
                  /\ row.progress = 100
                  /\ row.totalVideos = Len(videos[r])
                  /\ row.processedVideos = row.totalVideos]_vars

C27_Witness ==
    \E r \in Runs :
        /\ result[r].kind = "returned"
        /\ Len(videos[r]) > BATCH_SIZE
        /\ statusRows[myRow[r]].progress = 100
        /\ statusRows[myRow[r]].processedVideos = Len(videos[r])
        /\ \E a \in DOMAIN statusLog[r] :
              /\ statusLog[r][a].status = "indexing_videos"
              /\ statusLog[r][a].progress > 20
              /\ statusLog[r][a].progress < 50

\* The channel that lists the video of external id v.
ListedBy(v) ==
    CHOOSE u \in {"youtube.com/@c1", "youtube.com/@c2", "youtube.com/@c3"} :
        \E k \in DOMAIN ChannelVideos(u) : ChannelVideos(u)[k] = v

\* C28: with two overlapping runs for different channels on one indexer,
\* every Video row references the channel of the run that wrote it, and a
\* step of a run changes status rows of that run's channel only.
C28_RunsKeepToTheirChannel ==
    /\ [](\A k \in DOMAIN videoRows :
            channelRows[videoRows[k].channelId].channelId
                = extractChannelIdFromUrl(ListedBy(videoRows[k].videoId)))
    /\ [][\A r \in Runs :
            pc'[r] # pc[r] =>
                \A k \in DOMAIN statusRows :
                    statusRows'[k] # statusRows[k] => statusRows[k].channelId = channel[r]]_vars

\* C29: when the first listing held no subtitle file and the fallback's
\* subtitle file gave a non-empty transcript, the call that returned has
\* persisted the Video row and the chunks of that transcript.
C29_FallbackTranscriptPersisted ==
    (/\ vpc = "returned"
     /\ "fallback" \in vlog
     /\ transcript > 0)
        => /\ videoRecord # NULL
           /\ \E k \in DOMAIN videoRows : videoRows[k].videoId = TracedVideo
           /\ Len(chunks) = transcript

\* The steps of a run whose enumeration gave no video (yt-dlp failed or listed
\* nothing): it runs no batch and leaves the try block only through a database
\* failure: from the first status update on, its steps are the indexing_videos
\* update, markChannelAsIndexed on its channel, and the completed update that
\* writes progress 100, totalVideos 0 and processedVideos 0 to its status row
\* and returns.
C30_NoVideoStep(r) ==
    (/\ videos[r] = <<>>
     /\ pc[r] \in {"markIndexing", "batch", "complete"}
     /\ pc'[r] # pc[r])
        => \/ /\ pc'[r] = "catch"
              /\ error'[r] = ErrDb
              /\ faults' = faults + 1
           \/ /\ pc[r] = "markIndexing"
              /\ pc'[r] = "batch"
           \/ /\ pc[r] = "batch"
              /\ pc'[r] = "complete"
              /\ attempted'[r] = {}
              /\ marked'[r]
              /\ channelRows'[channel[r]].isIndexed
           \/ /\ pc[r] = "complete"
              /\ pc'[r] = "done"
              /\ result'[r].kind = "returned"
              /\ attempted'[r] = {}
              /\ marked'[r]
              /\ myRow[r] # NULL
              /\ statusRows'[myRow[r]].status = "completed"
              /\ statusRows'[myRow[r]].progress = 100
              /\ statusRows'[myRow[r]].totalVideos = 0
              /\ statusRows'[myRow[r]].processedVideos = 0

\* C30: every step of a run without videos is one of the steps above: it
\* runs no batch, marks the channel indexed, ends completed at 100 with 0 of 0.
C30_NoVideoRunCompletes ==
    [][\A r \in Runs : C30_NoVideoStep(r)]_vars

\* A run on a channel that has videos, whose enumeration failed, returned.
C30_Witness ==
    \E r \in Runs :
        /\ result[r].kind = "returned"
        /\ videos[r] = <<>>
        /\ ChannelVideos(url[r]) # <<>>
        /\ attempted[r] = {}
        /\ marked[r]
        /\ statusRows[myRow[r]].status = "completed"
        /\ statusRows[myRow[r]].totalVideos = 0

====
